---- MODULE Spec2Model ----
(***************************************************************************)
(* Librarian Discord bot: the allowed-context gate (config/env.ts), the    *)
(* interaction guards (discord/interactions/guards.ts), the interaction    *)
(* router (discord/interactions/handlers.ts), the leaf handlers and the    *)
(* interactionCreate listener of index.ts.                                 *)
(*                                                                         *)
(* Identifiers (Discord snowflakes) are modelled as the naturals 1..N; the *)
(* falsy identifier ("", null, undefined) is Absent.  For a snowflake,     *)
(* which names no member of Object.prototype, `allowedMap[guildId] ===     *)
(* undefined` and `!hasOwnProperty(allowedMap, guildId)` are the same      *)
(* test: guildId is not in the domain of the map.  A channel array of      *)
(* allowed-context.json is modelled as the set of its elements: the code   *)
(* reads it only through `length === 0` and `includes`.                    *)
(***************************************************************************)
EXTENDS Integers, Sequences, FiniteSets, TLC

\* ------------------------------------------------------------------ bounds
NumGuilds == 1
NumChannels == 2
MaxValueLen == 2
MaxCsvLen == 5
MaxMatches == 5

\* ------------------------------------------------------------- identifiers
Absent == 0
GuildIds == 1..NumGuilds
ChannelIds == 1..NumChannels
ContactIds == {"", "900"}

VARIABLES
  allowedMap,                 \* env.ts: const { map: allowedMap } = loadAllowedContext()
  nonverifiedServersAllowed,  \* env.ts: config.nonverifiedServersAllowed
  contactUserId,              \* env.ts: env.DISCORD_CONTACT_USER_ID ("" when unset)
  probe,                      \* a direct caller of the exported gate functions
  ev,                         \* the interaction travelling through the listener
  peer,                       \* a second event in flight in the same process
  host,                       \* the files and environment of the process, and
                              \* how far the evaluation of env.ts has come
  script                      \* a run of the register-commands script

cfgVars == <<allowedMap, nonverifiedServersAllowed, contactUserId>>
vars == <<allowedMap, nonverifiedServersAllowed, contactUserId, probe, ev, peer, host, script>>

\* ----------------------------------------------------------------- strings
\* Strings whose characters matter are sequences of one-character strings.
UpperCase == <<"A","B","C","D","E","F","G","H","I","J","K","L","M",
               "N","O","P","Q","R","S","T","U","V","W","X","Y","Z">>
LowerCase == <<"a","b","c","d","e","f","g","h","i","j","k","l","m",
               "n","o","p","q","r","s","t","u","v","w","x","y","z">>

\* The characters \s matches and trim removes.
WhiteSpace == {" ", "\t", "\n"}

\* String.prototype.toLowerCase and String.prototype.trim.
toLowerCase(str) ==
  [k \in 1..Len(str) |->
     IF \E n \in 1..26 : UpperCase[n] = str[k]
       THEN LowerCase[CHOOSE n \in 1..26 : UpperCase[n] = str[k]]
       ELSE str[k]]

RECURSIVE trimStart(_)
trimStart(str) ==
  IF str # <<>> /\ Head(str) \in WhiteSpace THEN trimStart(Tail(str)) ELSE str

RECURSIVE trimEnd(_)
trimEnd(str) ==
  IF str # <<>> /\ str[Len(str)] \in WhiteSpace
    THEN trimEnd(SubSeq(str, 1, Len(str) - 1)) ELSE str

trim(str) == trimEnd(trimStart(str))

\* ------------------------------------------------------- AllowedContextMap
\* Every value loadAllowedContext can return: null (present = FALSE), or a
\* record of guildId -> channelId[] (entries).
NullMap == [present |-> FALSE, entries |-> <<>>]
LoadedMaps ==
  UNION { { [present |-> TRUE, entries |-> f] : f \in [D -> SUBSET ChannelIds] }
          : D \in SUBSET GuildIds }
AllowedContextMaps == {NullMap} \cup LoadedMaps

\* --------------------------------------------------------------- user copy
DM_BLOCKED == "This bot is not available in DMs."
SERVER_BLOCKED(contact) ==
  IF contact # ""
    THEN "This bot is not available in this server. Please contact " \o contact \o "."
    ELSE "This bot is not available in this server."
CHANNEL_BLOCKED == "This bot is not available in this channel."

\* contactUserMention returns null when no id is configured; SERVER_BLOCKED
\* receives `null ?? undefined`, which is falsy like "".
contactUserMention ==
  IF contactUserId # "" THEN "<@" \o contactUserId \o ">" ELSE ""

\* ------------------------------------------------------ allowed-context.json
\* A candidate path holds no file, a file that cannot be read, text that is
\* not JSON, or the text of a JSON value.  A JSON string stands for the
\* identifier it spells.
Missing == [t |-> "missing", v |-> <<>>]
Unreadable == [t |-> "unreadable", v |-> <<>>]
InvalidJson == [t |-> "invalid", v |-> <<>>]
JsonNull == [t |-> "null", v |-> <<>>]
JsonNumber == [t |-> "number", v |-> <<>>]
JsonString(id) == [t |-> "string", v |-> <<id>>]
JsonArray(items) == [t |-> "array", v |-> items]
JsonObject(members) == [t |-> "object", v |-> members]

RECURSIVE SeqOf(_)
SeqOf(S) ==
  IF S = {} THEN <<>>
  ELSE LET x == CHOOSE x \in S : \A y \in S : x <= y
       IN <<x>> \o SeqOf(S \ {x})

ChannelArray(S) == JsonArray([k \in 1..Cardinality(S) |-> JsonString(SeqOf(S)[k])])

\* allowed-context.json written from a map.
DocumentOf(m) ==
  IF ~m.present THEN Missing
  ELSE JsonObject([g \in DOMAIN m.entries |-> ChannelArray(m.entries[g])])

\* Documents of the right shape (one of them naming a channel twice), and
\* documents zod rejects.
DuplicateArray == JsonObject([g \in {1} |-> JsonArray(<<JsonString(1), JsonString(1)>>)])
WellFormed == { DocumentOf(m) : m \in LoadedMaps } \cup {DuplicateArray}
Malformed ==
  { JsonNull, JsonNumber, JsonString(1), ChannelArray({1}),
    JsonObject([g \in {1} |-> JsonString(1)]),
    JsonObject([g \in {1} |-> JsonNull]),
    JsonObject([g \in {1} |-> JsonArray(<<JsonString(1), JsonNumber>>)]),
    JsonObject([g \in {1} |-> JsonObject(<<>>)]) }
Files == {Missing, Unreadable, InvalidJson} \cup WellFormed \cup Malformed

\* z.record(z.array(z.string())).parse succeeds.
SchemaAccepts(json) ==
  /\ json.t = "object"
  /\ \A g \in DOMAIN json.v :
       /\ json.v[g].t = "array"
       /\ \A k \in 1..Len(json.v[g].v) : json.v[g].v[k].t = "string"

ParsedMap(json) ==
  [present |-> TRUE,
   entries |-> [g \in DOMAIN json.v |->
                  { json.v[g].v[k].v[1] : k \in 1..Len(json.v[g].v) }]]

\* What a call of loadAllowedContext leaves: the map, the index of the path it
\* was loaded from (0 for none), the paths whose existence was tested, the
\* paths read, whether the warning was printed, whether the call threw.
NotLoaded(tested, read, warned) ==
  [map |-> NullMap, loadedPath |-> 0, tested |-> tested, read |-> read,
   warned |-> warned, threw |-> FALSE]

\* A variant without the try/catch around the read and the parse.
RECURSIVE loadAllowedContext_NoCatch(_, _, _)
loadAllowedContext_NoCatch(candidates, p, tested) ==
  IF p > Len(candidates) THEN NotLoaded(tested, <<>>, FALSE)
  ELSE IF candidates[p] = Missing
    THEN loadAllowedContext_NoCatch(candidates, p + 1, Append(tested, p))
  ELSE IF candidates[p] \in {Unreadable, InvalidJson} \/ ~SchemaAccepts(candidates[p])
    THEN [NotLoaded(Append(tested, p), <<p>>, FALSE) EXCEPT !.threw = TRUE]
  ELSE [map |-> ParsedMap(candidates[p]), loadedPath |-> p,
        tested |-> Append(tested, p), read |-> <<p>>, warned |-> FALSE,
        threw |-> FALSE]

\* A variant whose catch block goes on to the next candidate.
RECURSIVE loadAllowedContext_CatchContinues(_, _, _)
loadAllowedContext_CatchContinues(candidates, p, tested) ==
  IF p > Len(candidates) THEN NotLoaded(tested, <<>>, FALSE)
  ELSE IF candidates[p] = Missing
    THEN loadAllowedContext_CatchContinues(candidates, p + 1, Append(tested, p))
  ELSE IF candidates[p] \in {Unreadable, InvalidJson} \/ ~SchemaAccepts(candidates[p])
    THEN LET rest == loadAllowedContext_CatchContinues(candidates, p + 1, Append(tested, p))
         IN [rest EXCEPT !.read = <<p>> \o @, !.warned = TRUE]
  ELSE [map |-> ParsedMap(candidates[p]), loadedPath |-> p,
        tested |-> Append(tested, p), read |-> <<p>>, warned |-> FALSE,
        threw |-> FALSE]

\* loadAllowedContext, the loop from candidate p on.
RECURSIVE loadAllowedContext(_, _, _)
loadAllowedContext(candidates, p, tested) ==
  IF p > Len(candidates) THEN NotLoaded(tested, <<>>, FALSE)
  ELSE IF candidates[p] = Missing
    THEN loadAllowedContext(candidates, p + 1, Append(tested, p))
  ELSE IF candidates[p] \in {Unreadable, InvalidJson} \/ ~SchemaAccepts(candidates[p])
    THEN NotLoaded(Append(tested, p), <<p>>, TRUE)
  ELSE [map |-> ParsedMap(candidates[p]), loadedPath |-> p,
        tested |-> Append(tested, p), read |-> <<p>>, warned |-> FALSE,
        threw |-> FALSE]

\* -------------------------------------------------------------------- gate
\* A variant that takes an empty object for a missing file.
isGuildAllowed_EmptyMapIsAbsent(guildId) ==
  IF guildId = Absent THEN FALSE
  ELSE IF ~allowedMap.present \/ DOMAIN allowedMap.entries = {} THEN TRUE
  ELSE IF guildId \in DOMAIN allowedMap.entries THEN TRUE
  ELSE nonverifiedServersAllowed

\* A variant that reads allowed-context.json again on every call.
isGuildAllowed_ReadsFileEachCall(guildId) ==
  LET reloaded == loadAllowedContext(host.files, 1, <<>>).map
  IN IF guildId = Absent THEN FALSE
     ELSE IF ~reloaded.present THEN TRUE
     ELSE IF guildId \in DOMAIN reloaded.entries THEN TRUE
     ELSE nonverifiedServersAllowed

isGuildAllowed(guildId) ==
  IF guildId = Absent THEN FALSE
  ELSE IF ~allowedMap.present THEN TRUE
  ELSE IF guildId \in DOMAIN allowedMap.entries THEN TRUE
  ELSE nonverifiedServersAllowed

\* Variants of isChannelAllowed: no guild short-circuit and an unlisted guild
\* open to all; a missing file following the flag; an unlisted guild closed;
\* the map looked at before the identifiers; an empty array closing the guild.
isChannelAllowed_UnlistedAllowsAll(guildId, channelId) ==
  IF guildId = Absent \/ channelId = Absent THEN FALSE
  ELSE IF ~allowedMap.present THEN TRUE
  ELSE IF guildId \notin DOMAIN allowedMap.entries THEN TRUE
  ELSE IF allowedMap.entries[guildId] = {} THEN TRUE
  ELSE channelId \in allowedMap.entries[guildId]

isChannelAllowed_AbsentMapUsesPolicy(guildId, channelId) ==
  IF guildId = Absent \/ channelId = Absent THEN FALSE
  ELSE IF ~allowedMap.present THEN nonverifiedServersAllowed
  ELSE IF ~isGuildAllowed(guildId) THEN FALSE
  ELSE IF guildId \notin DOMAIN allowedMap.entries THEN nonverifiedServersAllowed
  ELSE IF allowedMap.entries[guildId] = {} THEN TRUE
  ELSE channelId \in allowedMap.entries[guildId]

isChannelAllowed_UnlistedDeniesAll(guildId, channelId) ==
  IF guildId = Absent \/ channelId = Absent THEN FALSE
  ELSE IF ~allowedMap.present THEN TRUE
  ELSE IF ~isGuildAllowed(guildId) THEN FALSE
  ELSE IF guildId \notin DOMAIN allowedMap.entries THEN FALSE
  ELSE IF allowedMap.entries[guildId] = {} THEN TRUE
  ELSE channelId \in allowedMap.entries[guildId]

isChannelAllowed_MapBeforeEmptyCheck(guildId, channelId) ==
  IF ~allowedMap.present THEN TRUE
  ELSE IF guildId = Absent \/ channelId = Absent THEN FALSE
  ELSE IF ~isGuildAllowed(guildId) THEN FALSE
  ELSE IF guildId \notin DOMAIN allowedMap.entries THEN nonverifiedServersAllowed
  ELSE IF allowedMap.entries[guildId] = {} THEN TRUE
  ELSE channelId \in allowedMap.entries[guildId]

isChannelAllowed_EmptyListDeniesAll(guildId, channelId) ==
  IF guildId = Absent \/ channelId = Absent THEN FALSE
  ELSE IF ~allowedMap.present THEN TRUE
  ELSE IF ~isGuildAllowed(guildId) THEN FALSE
  ELSE IF guildId \notin DOMAIN allowedMap.entries THEN nonverifiedServersAllowed
  ELSE channelId \in allowedMap.entries[guildId]

isChannelAllowed(guildId, channelId) ==
  IF guildId = Absent \/ channelId = Absent THEN FALSE
  ELSE IF ~allowedMap.present THEN TRUE
  ELSE IF ~isGuildAllowed(guildId) THEN FALSE
  ELSE IF guildId \notin DOMAIN allowedMap.entries THEN nonverifiedServersAllowed
  ELSE IF allowedMap.entries[guildId] = {} THEN TRUE
  ELSE channelId \in allowedMap.entries[guildId]

\* ------------------------------------------------ direct calls of the gate
NoProbe == [guildId |-> Absent, channelId |-> Absent,
            guildRet |-> <<>>, channelRet |-> <<>>]
ProbeInputs ==
  [guildId : GuildIds \cup {Absent}, channelId : ChannelIds \cup {Absent},
   guildRet : {<<>>}, channelRet : {<<>>}]

CallIsGuildAllowed ==
  /\ probe.guildRet = <<>>
  /\ probe' = [probe EXCEPT !.guildRet = <<isGuildAllowed(probe.guildId)>>]
  /\ UNCHANGED <<cfgVars, ev, peer, host, script>>

CallIsChannelAllowed ==
  /\ probe.channelRet = <<>>
  /\ probe' = [probe EXCEPT
                 !.channelRet = <<isChannelAllowed(probe.guildId, probe.channelId)>>]
  /\ UNCHANGED <<cfgVars, ev, peer, host, script>>

\* ------------------------------------------------------------- interaction
LIBRARIAN_COMMAND_NAME == "librarian"

\* A custom id is the sequence of its characters.
UploadByBookId ==
  <<"L","I","B",":","U","P","L","O","A","D",":",
    "b","o","o","k","I","d","=","4","2",";","r","=","0",";","b","=","0">>
AskByFilename ==
  <<"L","I","B",":","A","S","K",":",
    "f","i","l","e","n","a","m","e","=","a",".","p","d","f">>
Garbage == <<"G","A","R","B","A","G","E">>
CustomIds == {UploadByBookId, AskByFilename, Garbage}

\* Interaction types: "autocomplete" (not repliable), "command" (chat input),
\* "button", "modal" (any other repliable kind).
\* "" is a command that carries no subcommand at all.
Subcommands == {"chat", "search", "request", "upload", "bogus", ""}

\* librarianCommand: the subcommands added to the /librarian schema.
DeclaredSubcommands == {"chat", "search", "request", "upload"}

\* A message: whether its author is a bot, whether it mentions this bot, its
\* attachments ("bigpdf" is a .pdf above MAX_FILE_SIZE), and the .pdf
\* attachments handleMentionUpload has still to go through.
NoMessage == [bot |-> FALSE, mentioned |-> FALSE, attachments |-> <<>>, pending |-> <<>>]

NoInteraction ==
  [pc |-> "idle", guildId |-> Absent, channelId |-> Absent, type |-> "autocomplete",
   commandName |-> "", sub |-> "", customId |-> <<>>, message |-> NoMessage,
   deferred |-> FALSE, replied |-> FALSE, thrown |-> FALSE, escaped |-> FALSE,
   gate |-> <<>>, handlers |-> <<>>, out |-> <<>>, http |-> <<>>, log |-> <<>>,
   filename |-> <<>>, answers |-> <<>>]

\* The events the platform can deliver.  A DM carries no guild id; a guild
\* event always carries one, and its channel id may be null.
Interactions ==
  LET Where == { <<Absent, c>> : c \in ChannelIds }
                 \cup (GuildIds \X (ChannelIds \cup {Absent}))
      What == { <<"autocomplete", "", "", <<>> >>, <<"modal", "", "", <<>> >>,
                <<"command", "other", "", <<>> >> }
              \cup { <<"command", LIBRARIAN_COMMAND_NAME, s, <<>> >> : s \in Subcommands }
              \cup { <<"button", "", "", id>> : id \in CustomIds }
  IN { [NoInteraction EXCEPT !.pc = "start", !.guildId = w[1], !.channelId = w[2],
          !.type = k[1], !.commandName = k[2], !.sub = k[3], !.customId = k[4]]
       : w \in Where, k \in What }

\* The messages the platform can deliver: a channel id is always there, a
\* guild id only outside DMs.
AttachmentLists == { <<>>, <<"png">>, <<"pdf">>, <<"bigpdf", "pdf">> }
Messages ==
  { [NoInteraction EXCEPT !.pc = "m.start", !.type = "message",
       !.guildId = g, !.channelId = c,
       !.message = [NoMessage EXCEPT !.bot = b, !.mentioned = m, !.attachments = a]]
    : g \in GuildIds \cup {Absent}, c \in ChannelIds, b \in BOOLEAN, m \in BOOLEAN,
      a \in AttachmentLists }

inGuild(i) == i.guildId # Absent
isRepliable(i) == i.type # "autocomplete"
isChatInputCommand(i) == i.type = "command"
isButton(i) == i.type = "button"

Log(i, level, msg) == [i EXCEPT !.log = Append(@, <<level, msg>>)]

\* discord.js: reply and deferReply are the initial acknowledgement and throw
\* on an interaction that is already deferred or replied; followUp and
\* editReply throw on one that is not.  Every call can also fail on the wire
\* (ok = FALSE).  A failed call changes no flag.
Api(i, op, content, ok) ==
  LET pre == IF op \in {"reply", "deferReply"}
               THEN ~i.deferred /\ ~i.replied
               ELSE i.deferred \/ i.replied
      good == pre /\ ok
  IN [i EXCEPT !.out = Append(@, [op |-> op, content |-> content, ok |-> good]),
               !.deferred = IF good /\ op = "deferReply" THEN TRUE ELSE @,
               !.replied = IF good /\ op # "deferReply" THEN TRUE ELSE @,
               !.thrown = ~good]

Send(i, op, content) == { Api(i, op, content, ok) : ok \in BOOLEAN }

\* A variant that replies whatever the flags say.
FollowUpOrReply_AlwaysReply(i, content) == Send(i, "reply", content)

\* if (deferred || replied) followUp(...) else reply(...)
FollowUpOrReply(i, content) ==
  Send(i, IF i.deferred \/ i.replied THEN "followUp" ELSE "reply", content)

\* if (deferred || replied) editReply(...) else reply(...)
EditOrReply(i, content) ==
  Send(i, IF i.deferred \/ i.replied THEN "editReply" ELSE "reply", content)

\* ------------------------------------------------------------------ guards
\* try { followUp/reply } catch { logger.warn }
Swallow(i, level, msg) ==
  IF i.thrown THEN Log([i EXCEPT !.thrown = FALSE], level, msg) ELSE i

replyPublic(i, content) ==
  { Swallow(r, "warn", "Failed to send allowed-context denial notice")
    : r \in FollowUpOrReply(i, content) }

\* A variant that sends the notice without asking isRepliable.
disallowDM_NoRepliableCheck(i) ==
  { Swallow(r, "warn", "Failed to send DM disallow notice")
    : r \in FollowUpOrReply(i, DM_BLOCKED) }

disallowDM(i) ==
  IF ~isRepliable(i) THEN {i}
  ELSE { Swallow(r, "warn", "Failed to send DM disallow notice")
         : r \in FollowUpOrReply(i, DM_BLOCKED) }

\* A variant whose channel denial sends the notice and still returns true.
enforceAllowedContext_ChannelDenyFallsThrough(i) ==
  IF ~isRepliable(i) THEN { <<i, FALSE>> }
  ELSE IF ~inGuild(i) THEN { <<r, FALSE>> : r \in disallowDM(i) }
  ELSE
    LET g1 == [i EXCEPT !.gate = Append(@, "isGuildAllowed")]
    IN IF ~isGuildAllowed(i.guildId)
         THEN { <<r, FALSE>> :
                r \in replyPublic(Log(g1, "gate", "deny guild_not_allowed"),
                                  SERVER_BLOCKED(contactUserMention)) }
         ELSE
           LET g2 == [g1 EXCEPT !.gate = Append(@, "isChannelAllowed")]
           IN IF ~isChannelAllowed(i.guildId, i.channelId)
                THEN { <<r, TRUE>> :
                       r \in replyPublic(Log(g2, "gate", "deny channel_not_allowed"),
                                         CHANNEL_BLOCKED) }
                ELSE { <<Log(g2, "gate", "allow context_allowed"), TRUE>> }

\* A variant whose guild denial does not return before the channel check.
enforceAllowedContext_NoStopAfterGuildDeny(i) ==
  IF ~isRepliable(i) THEN { <<i, FALSE>> }
  ELSE IF ~inGuild(i) THEN { <<r, FALSE>> : r \in disallowDM(i) }
  ELSE
    LET g1 == [i EXCEPT !.gate = Append(@, "isGuildAllowed")]
        afterGuild ==
          IF ~isGuildAllowed(i.guildId)
            THEN replyPublic(Log(g1, "gate", "deny guild_not_allowed"),
                             SERVER_BLOCKED(contactUserMention))
            ELSE {g1}
    IN UNION {
         LET g2 == [r EXCEPT !.gate = Append(@, "isChannelAllowed")]
         IN IF ~isChannelAllowed(i.guildId, i.channelId)
              THEN { <<q, FALSE>> :
                     q \in replyPublic(Log(g2, "gate", "deny channel_not_allowed"),
                                       CHANNEL_BLOCKED) }
              ELSE { <<Log(g2, "gate", "allow context_allowed"), isGuildAllowed(i.guildId)>> }
         : r \in afterGuild }

\* enforceAllowedContext: the set of <<interaction afterwards, returned value>>.
\* A variant that looks at the ids of the event the listener received first.
enforceAllowedContext_GateOnFirstEvent(i) ==
  IF ~isRepliable(i) THEN { <<i, FALSE>> }
  ELSE IF ~inGuild(i) THEN { <<r, FALSE>> : r \in disallowDM(i) }
  ELSE
    LET g1 == [i EXCEPT !.gate = Append(@, "isGuildAllowed")]
    IN IF ~isGuildAllowed(ev.guildId)
         THEN { <<r, FALSE>> :
                r \in replyPublic(Log(g1, "gate", "deny guild_not_allowed"),
                                  SERVER_BLOCKED(contactUserMention)) }
         ELSE
           LET g2 == [g1 EXCEPT !.gate = Append(@, "isChannelAllowed")]
           IN IF ~isChannelAllowed(ev.guildId, ev.channelId)
                THEN { <<r, FALSE>> :
                       r \in replyPublic(Log(g2, "gate", "deny channel_not_allowed"),
                                         CHANNEL_BLOCKED) }
                ELSE { <<Log(g2, "gate", "allow context_allowed"), TRUE>> }

enforceAllowedContext(i) ==
  IF ~isRepliable(i) THEN { <<i, FALSE>> }
  ELSE IF ~inGuild(i) THEN { <<r, FALSE>> : r \in disallowDM(i) }
  ELSE
    LET g1 == [i EXCEPT !.gate = Append(@, "isGuildAllowed")]
    IN IF ~isGuildAllowed(i.guildId)
         THEN { <<r, FALSE>> :
                r \in replyPublic(Log(g1, "gate", "deny guild_not_allowed"),
                                  SERVER_BLOCKED(contactUserMention)) }
         ELSE
           LET g2 == [g1 EXCEPT !.gate = Append(@, "isChannelAllowed")]
           IN IF ~isChannelAllowed(i.guildId, i.channelId)
                THEN { <<r, FALSE>> :
                       r \in replyPublic(Log(g2, "gate", "deny channel_not_allowed"),
                                         CHANNEL_BLOCKED) }
                ELSE { <<Log(g2, "gate", "allow context_allowed"), TRUE>> }

\* ---------------------------------------------------------------- listener
\* The end of the listener's try block: handleInteractionCreate returned, or
\* threw into the catch.
Settle(i) ==
  IF i.thrown
    THEN Log([i EXCEPT !.pc = "caught", !.thrown = FALSE],
             "error", "Unhandled error in interactionCreate")
    ELSE Log([i EXCEPT !.pc = "done"], "interaction", "responded")

\* client.on('interactionCreate'): an event arrives; the listener logs it and
\* calls handleInteractionCreate.
InteractionCreate ==
  /\ host.pc = "ready"
  /\ ev.pc = "idle"
  /\ \E i \in Interactions : ev' = Log(i, "interaction", "received")
  /\ UNCHANGED <<cfgVars, probe, peer, host, script>>

\* handleInteractionCreate, lines 19-23: the DM guard.
DMGuardSucc(i) == { Settle(r) : r \in disallowDM(i) }

DMGuard ==
  /\ ev.pc = "start"
  /\ ~inGuild(ev)
  /\ ev' \in DMGuardSucc(ev)
  /\ UNCHANGED <<cfgVars, probe, peer, host, script>>

\* A variant that drops a command of another name before the gate is asked.
ContextGuardSucc_OwnershipFirst(i) ==
  IF isChatInputCommand(i) /\ i.commandName # LIBRARIAN_COMMAND_NAME THEN { Settle(i) }
  ELSE { IF a[2] THEN [a[1] EXCEPT !.pc = "route"] ELSE Settle(a[1])
         : a \in enforceAllowedContext(i) }

\* handleInteractionCreate, lines 25-27: the context guard.
ContextGuardSucc(i) ==
  { IF a[2] THEN [a[1] EXCEPT !.pc = "route"] ELSE Settle(a[1])
    : a \in enforceAllowedContext(i) }

ContextGuard ==
  /\ ev.pc = "start"
  /\ inGuild(ev)
  /\ ev' \in ContextGuardSucc(ev)
  /\ UNCHANGED <<cfgVars, probe, peer, host, script>>

\* A variant whose failed notice leaves the callback as a rejection.
ListenerCatchSucc_Rethrows(i) ==
  IF isRepliable(i)
    THEN { [r EXCEPT !.pc = "done", !.thrown = FALSE, !.escaped = r.thrown]
           : r \in FollowUpOrReply(i, "An unexpected error occurred.") }
    ELSE { [i EXCEPT !.pc = "done"] }

\* The listener's catch block: one best-effort generic notice.
ListenerCatchSucc(i) ==
  IF isRepliable(i)
    THEN { [r EXCEPT !.pc = "done", !.thrown = FALSE]
           : r \in FollowUpOrReply(i, "An unexpected error occurred.") }
    ELSE { [i EXCEPT !.pc = "done"] }

ListenerCatch ==
  /\ ev.pc = "caught"
  /\ ev' \in ListenerCatchSucc(ev)
  /\ UNCHANGED <<cfgVars, probe, peer, host, script>>

\* The callback's promise settles; nothing of the interaction is kept.
ListenerReturn ==
  /\ ev.pc = "done"
  /\ ev' = NoInteraction
  /\ UNCHANGED <<cfgVars, probe, peer, host, script>>

\* ------------------------------------------------------------ custom ids
\* String.prototype.split: one more part than there are separators.
RECURSIVE Split(_, _)
Split(s, sep) ==
  IF s = <<>> THEN << <<>> >>
  ELSE LET rest == Split(Tail(s), sep)
       IN IF Head(s) = sep
            THEN << <<>> >> \o rest
            ELSE << <<Head(s)>> \o Head(rest) >> \o Tail(rest)

NoParse == [ok |-> FALSE, action |-> "", key |-> "", value |-> <<>>]

\* A variant that keeps the uniqueness suffix in the value.
parseCustomId_SuffixKept(customId) ==
  LET parts == Split(customId, ":")
  IN IF Len(parts) # 3 \/ parts[1] # <<"L","I","B">> THEN NoParse
     ELSE
       LET action == parts[2]
           firstKV == parts[3]
           eq == CHOOSE n \in 1..(Len(firstKV) + 1) :
                   /\ n <= Len(firstKV) => firstKV[n] = "="
                   /\ \A k \in 1..(n - 1) : firstKV[k] # "="
           kv == IF eq > Len(firstKV) THEN <<firstKV>>
                 ELSE <<SubSeq(firstKV, 1, eq - 1), SubSeq(firstKV, eq + 1, Len(firstKV))>>
       IN IF firstKV = <<>> THEN NoParse
          ELSE IF Len(kv) # 2 \/ kv[1] = <<>> \/ kv[2] = <<>> THEN NoParse
          ELSE IF kv[1] \notin { <<"b","o","o","k","I","d">>, <<"f","i","l","e","n","a","m","e">> }
            THEN NoParse
          ELSE IF action \notin { <<"U","P","L","O","A","D">>, <<"A","S","K">> } THEN NoParse
          ELSE [ok |-> TRUE,
                action |-> IF action = <<"A","S","K">> THEN "ASK" ELSE "UPLOAD",
                key |-> IF kv[1] = <<"b","o","o","k","I","d">> THEN "id" ELSE "filename",
                value |-> kv[2]]

parseCustomId(customId) ==
  LET parts == Split(customId, ":")
  IN IF Len(parts) # 3 \/ parts[1] # <<"L","I","B">> THEN NoParse
     ELSE
       LET action == parts[2]
           firstKV == Split(parts[3], ";")[1]
           kv == Split(firstKV, "=")
       IN IF firstKV = <<>> THEN NoParse
          ELSE IF Len(kv) # 2 \/ kv[1] = <<>> \/ kv[2] = <<>> THEN NoParse
          ELSE IF kv[1] = <<"b","o","o","k","I","d">>
            THEN IF action = <<"U","P","L","O","A","D">>
                   THEN [ok |-> TRUE, action |-> "UPLOAD", key |-> "id", value |-> kv[2]]
                 ELSE IF action = <<"A","S","K">>
                   THEN [ok |-> TRUE, action |-> "ASK", key |-> "id", value |-> kv[2]]
                 ELSE NoParse
          ELSE IF kv[1] = <<"f","i","l","e","n","a","m","e">>
            THEN IF action = <<"U","P","L","O","A","D">>
                   THEN [ok |-> TRUE, action |-> "UPLOAD", key |-> "filename", value |-> kv[2]]
                 ELSE IF action = <<"A","S","K">>
                   THEN [ok |-> TRUE, action |-> "ASK", key |-> "filename", value |-> kv[2]]
                 ELSE NoParse
          ELSE NoParse

\* ------------------------------------------------- direct calls of the parser
\* Custom ids put together from a prefix, an action, a key, a value and a
\* suffix, and a few that are not of that form.
Prefixes == { <<"L","I","B">>, <<"l","i","b">>, <<>> }
Actions == { <<"U","P","L","O","A","D">>, <<"A","S","K">>, <<"u","p","l","o","a","d">>, <<>> }
Keys == { <<"f","i","l","e","n","a","m","e">>, <<"b","o","o","k","I","d">>, <<"i","d">>, <<>> }
ValueAlphabet == { "a", "4", ":", ";", "=" }
Values ==
  UNION { [1..n -> ValueAlphabet] : n \in 0..MaxValueLen }
    \cup { <<"a",".","p","d","f">>, <<"4","2">> }
Suffixes == { <<>>, <<";","r","=","2",";","b","=","1">>, <<";","r","=","0",";","b","=","0">> }
RawCustomIds ==
  { Garbage, <<>>, <<"L","I","B">>, <<"L","I","B",":","U","P","L","O","A","D">>, <<"L","I","B",":","U","P","L","O","A","D",":","f","i","l","e","n","a","m","e">>, <<"X",":","L","I","B",":","U","P","L","O","A","D",":","f","i","l","e","n","a","m","e","=","a",".","p","d","f">> }

Assemble(prefix, action, key, value, suffix) ==
  prefix \o <<":">> \o action \o <<":">> \o key \o <<"=">> \o value \o suffix

ParseInputs ==
  { [raw |-> FALSE, prefix |-> x, action |-> a, key |-> k, value |-> v, suffix |-> sfx,
     customId |-> Assemble(x, a, k, v, sfx), parsed |-> <<>>]
    : x \in Prefixes, a \in Actions, k \in Keys, v \in Values, sfx \in Suffixes }
  \cup
  { [raw |-> TRUE, prefix |-> <<>>, action |-> <<>>, key |-> <<>>, value |-> <<>>,
     suffix |-> <<>>, customId |-> id, parsed |-> <<>>]
    : id \in RawCustomIds }

CallParseCustomId ==
  /\ probe.parsed = <<>>
  /\ probe' = [probe EXCEPT !.parsed = <<parseCustomId(probe.customId)>>]
  /\ UNCHANGED <<cfgVars, ev, peer, host, script>>

\* -------------------------------------------------------- result buttons
\* String(n) of a row or button index.
Digits == <<"0","1","2","3","4","5","6","7","8","9">>
RECURSIVE NumberToString(_)
NumberToString(n) ==
  IF n < 10 THEN <<Digits[n + 1]>>
  ELSE NumberToString(n \div 10) \o <<Digits[(n % 10) + 1]>>

\* An index that is not passed.
Undefined == -1

\* safe.replace(/[\s]/g, '')
RECURSIVE StripWhiteSpace(_)
StripWhiteSpace(str) ==
  IF str = <<>> THEN <<>>
  ELSE (IF Head(str) \in WhiteSpace THEN <<>> ELSE <<Head(str)>>) \o StripWhiteSpace(Tail(str))

\* encodeCustomId(action, value, rowIndex, buttonIndex, valueKey)
encodeCustomId(action, value, rowIndex, buttonIndex, valueKey) ==
  LET stripped == StripWhiteSpace(value)
      trimmed == IF valueKey = "filename"
                   THEN (IF Len(stripped) > 64 THEN SubSeq(stripped, 1, 64) ELSE stripped)
                   ELSE value
      base == <<"L","I","B",":">>
              \o (IF action = "UPLOAD" THEN <<"U","P","L","O","A","D">> ELSE <<"A","S","K">>)
              \o <<":">>
              \o (IF valueKey = "filename" THEN <<"f","i","l","e","n","a","m","e">>
                                           ELSE <<"b","o","o","k","I","d">>)
              \o <<"=">> \o trimmed
  IN IF rowIndex = Undefined \/ buttonIndex = Undefined THEN base
     ELSE base \o <<";","r","=">> \o NumberToString(rowIndex)
               \o <<";","b","=">> \o NumberToString(buttonIndex)

\* A variant that leaves the row out of the ids.
buildResultButtons_NoRowIndex(bookId, bookFilename, rowIndex) ==
  << encodeCustomId("UPLOAD", bookId, Undefined, 0, "bookId"),
     encodeCustomId("ASK", bookId, Undefined, 1, "bookId") >>

\* buildResultButtons: the custom ids of the row's two buttons.
buildResultButtons(bookId, bookFilename, rowIndex) ==
  << encodeCustomId("UPLOAD", bookId, rowIndex, 0, "bookId"),
     encodeCustomId("ASK", bookId, rowIndex, 1, "bookId") >>

\* handleSearch, lines 70-80: data.matches.slice(0, 5), and one row of buttons
\* for each result.
resultComponents(matches) ==
  LET results == SubSeq(matches, 1, IF Len(matches) > 5 THEN 5 ELSE Len(matches))
  IN [i \in 1..Len(results) |->
        buildResultButtons(results[i].id, results[i].filename, i - 1)]

\* The books the backend knows, and what a search can answer with.
BookIds == { <<"4","2">>, <<"7">>, <<"a","-","4">>, <<"a">> }
Books == { [id |-> b, filename |-> b \o <<".","p","d","f">>] : b \in BookIds }
MatchLists == UNION { [1..n -> Books] : n \in 0..MaxMatches }

BuildComponents ==
  /\ ~probe.built
  /\ probe' = [probe EXCEPT !.built = TRUE, !.components = resultComponents(probe.matches)]
  /\ UNCHANGED <<cfgVars, ev, peer, host, script>>

\* ------------------------------------------------------------------ router
Invoke(i, handler, pc) ==
  [i EXCEPT !.handlers = Append(@, handler), !.pc = pc]

\* A variant without the command-name test.
routeChatInput_NoOwnershipCheck(i) ==
  IF i.sub = "" THEN { Settle([i EXCEPT !.thrown = TRUE]) }
  ELSE IF i.sub = "chat" THEN { Invoke(i, "handleChat", "chat") }
  ELSE IF i.sub = "search" THEN { Invoke(i, "handleSearch", "search") }
  ELSE IF i.sub = "request" THEN { Invoke(i, "handleRequest", "request") }
  ELSE { Settle(IF r.thrown THEN r
                ELSE Log(r, "warn", "Unknown subcommand for /librarian"))
         : r \in Send(i, "reply", "Unknown subcommand.") }

routeChatInput(i) ==
  IF i.commandName # LIBRARIAN_COMMAND_NAME THEN { Settle(i) }
  ELSE IF i.sub = "" THEN { Settle([i EXCEPT !.thrown = TRUE]) }
  ELSE IF i.sub = "chat" THEN { Invoke(i, "handleChat", "chat") }
  ELSE IF i.sub = "search" THEN { Invoke(i, "handleSearch", "search") }
  ELSE IF i.sub = "request" THEN { Invoke(i, "handleRequest", "request") }
  ELSE { Settle(IF r.thrown THEN r
                ELSE Log(r, "warn", "Unknown subcommand for /librarian"))
         : r \in Send(i, "reply", "Unknown subcommand.") }

\* A variant that takes whatever is not a command for a button.
RouteSucc_ElseIsButton(i) ==
  IF isChatInputCommand(i) THEN routeChatInput(i)
  ELSE { Invoke(i, "handleButton", "button") }

RouteSucc(i) ==
  IF isChatInputCommand(i) THEN routeChatInput(i)
  ELSE IF isButton(i) THEN { Invoke(i, "handleButton", "button") }
  ELSE { Settle(Log(i, "debug", "Ignoring unsupported interaction type")) }

\* handleInteractionCreate, lines 29-42, on an allowed interaction.
Route ==
  /\ ev.pc = "route"
  /\ ev' \in RouteSucc(ev)
  /\ UNCHANGED <<cfgVars, probe, peer, host, script>>

\* ---------------------------------------------------------- leaf handlers
Http(i, request) == [i EXCEPT !.http = Append(@, request)]
HttpOutcomes == {"ok", "notok", "throw"}

\* try { if (!deferred && !replied) await deferReply() } catch { logger.info }
Defer(i, msg) ==
  IF ~i.deferred /\ ~i.replied
    THEN { Swallow(r, "info", msg) : r \in Send(i, "deferReply", "") }
    ELSE {i}

\* The body of a try block ran to the records S; those that threw go through
\* the catch block: a logged error, then one editReply/reply that may throw.
CatchWith(S, logMsg, content) ==
  UNION { IF r.thrown
            THEN EditOrReply(Log([r EXCEPT !.thrown = FALSE], "error", logMsg), content)
            ELSE {r}
          : r \in S }

Throw(i) == [i EXCEPT !.thrown = TRUE]

\* handleChat, lines 156-169.
HandleChatDeferSucc(i) ==
  { [r EXCEPT !.pc = "chat.fetch"] : r \in Defer(i, "Failed to defer reply") }

HandleChatDefer ==
  /\ ev.pc = "chat"
  /\ ev' \in HandleChatDeferSucc(ev)
  /\ UNCHANGED <<cfgVars, probe, peer, host, script>>

\* handleChat, lines 171-233.
handleChatFetch(i, outcome) ==
  LET h == Http(i, "POST /chat")
      try ==
        IF outcome = "throw" THEN { Throw(h) }
        ELSE IF outcome = "notok"
          THEN EditOrReply(Log(h, "error", "Librarian /chat error"), "Chat failed")
        ELSE { IF r.thrown THEN r ELSE Log(r, "info", "CHAT forwarded")
               : r \in EditOrReply(h, "answer") }
  IN CatchWith(try, "Librarian /chat request failed", "Chat failed")

HandleChatFetchSucc(i) ==
  UNION { { Settle(r) : r \in handleChatFetch(i, outcome) } : outcome \in HttpOutcomes }

HandleChatFetch ==
  /\ ev.pc = "chat.fetch"
  /\ ev' \in HandleChatFetchSucc(ev)
  /\ UNCHANGED <<cfgVars, probe, peer, host, script>>

\* handleSearch, lines 32-40.
HandleSearchDeferSucc(i) ==
  { [r EXCEPT !.pc = "search.fetch"] : r \in Defer(i, "Failed to defer reply (/search)") }

HandleSearchDefer ==
  /\ ev.pc = "search"
  /\ ev' \in HandleSearchDeferSucc(ev)
  /\ UNCHANGED <<cfgVars, probe, peer, host, script>>

\* handleSearch, lines 42-109.
handleSearchFetch(i, outcome) ==
  LET h == Http(i, "POST /search")
      try ==
        IF outcome = "throw" THEN { Throw(h) }
        ELSE IF outcome = "notok"
          THEN EditOrReply(Log(h, "error", "Librarian /search error"), "Search failed")
        ELSE { IF r.thrown THEN r ELSE Log(r, "info", "SEARCH forwarded")
               : r \in EditOrReply(h, "Top results") }
  IN CatchWith(try, "Librarian /search request failed", "Search failed")

HandleSearchFetchSucc(i) ==
  UNION { { Settle(r) : r \in handleSearchFetch(i, outcome) } : outcome \in HttpOutcomes }

HandleSearchFetch ==
  /\ ev.pc = "search.fetch"
  /\ ev' \in HandleSearchFetchSucc(ev)
  /\ UNCHANGED <<cfgVars, probe, peer, host, script>>

\* handleRequest, lines 58-66.
\* The filename option of /librarian request.
RequestedFilenames == { <<"A",".","p","d","f">>, <<"b",".","p","d","f">> }

\* handleRequest, lines 58-66: the option is read and the reply deferred.
HandleRequestDeferSucc(i) ==
  { [r EXCEPT !.pc = "request.byFilename", !.filename = f]
    : r \in Defer(i, "Failed to defer reply (/request)"), f \in RequestedFilenames }

HandleRequestDefer ==
  /\ ev.pc = "request"
  /\ ev' \in HandleRequestDeferSucc(ev)
  /\ UNCHANGED <<cfgVars, probe, peer, host, script>>

RequestCatch(S) == CatchWith(S, "Librarian download failed", "Download failed")

\* What the backend can answer to the by-filename download: the request
\* fails (no status), the file, or a status that is not OK with a body that
\* is no JSON, JSON without error.message, or JSON with an error.message.
FetchFailed == [ok |-> FALSE, status |-> 0, body |-> "fetch failed"]
DownloadAnswers ==
  { FetchFailed, [ok |-> TRUE, status |-> 200, body |-> "file"] }
  \cup { [ok |-> FALSE, status |-> st, body |-> b]
         : st \in {404, 500},
           b \in {"not json", "no message", "book_not_found", "internal_error"} }

Answered(i, res) == [i EXCEPT !.answers = Append(@, res)]

\* A variant that takes every 404 for a missing book.
shouldFallbackToList_Any404(res) == res.status = 404

\* handleRequest, lines 97-108: serverMsg === 'book_not_found' && status === 404.
shouldFallbackToList(res) ==
  /\ res.body \notin {"not json", "no message"}
  /\ res.body = "book_not_found" /\ res.status = 404

\* handleRequest, lines 68-115: the by-filename download.
handleRequestByFilename(i, res) ==
  LET h == Answered(Http(i, "GET /books/by-filename/:filename/download"), res)
      try ==
        IF res = FetchFailed THEN { Throw(h) }
        ELSE IF res.ok
          THEN { IF r.thrown THEN r ELSE Log(r, "info", "REQUEST upload completed")
                 : r \in EditOrReply(h, "Uploading") }
        ELSE IF shouldFallbackToList(res) THEN { [h EXCEPT !.pc = "request.list"] }
        ELSE EditOrReply(h, "Download failed")
  IN RequestCatch(try)

HandleRequestByFilenameSucc(i) ==
  UNION { { IF r.pc = "request.list" THEN r ELSE Settle(r)
            : r \in handleRequestByFilename(i, res) }
          : res \in DownloadAnswers }

HandleRequestByFilename ==
  /\ ev.pc = "request.byFilename"
  /\ ev' \in HandleRequestByFilenameSucc(ev)
  /\ UNCHANGED <<cfgVars, probe, peer, host, script>>

\* What GET /books can answer: the request fails, a status that is not OK, a
\* body whose items is no array, or a list of books.
BookLists ==
  { <<>>,
    << [id |-> 3, filename |-> <<"c",".","p","d","f">>] >>,
    << [id |-> 3, filename |-> <<"c",".","p","d","f">>], [id |-> 1, filename |-> <<"a",".","P","D","F">>] >>,
    << [id |-> 2, filename |-> <<"A",".","p","d","f">>] >>,
    << [id |-> 1, filename |-> <<"a",".","P","D","F">>], [id |-> 2, filename |-> <<"A",".","p","d","f">>] >> }
ListFailed == [ok |-> FALSE, status |-> 0, isArray |-> FALSE, items |-> <<>>]
ListAnswers ==
  { ListFailed, [ok |-> FALSE, status |-> 500, isArray |-> FALSE, items |-> <<>>],
    [ok |-> TRUE, status |-> 200, isArray |-> FALSE, items |-> <<>>] }
  \cup { [ok |-> TRUE, status |-> 200, isArray |-> TRUE, items |-> l] : l \in BookLists }

\* items.find((b) => b.filename?.toLowerCase() === filename.toLowerCase()):
\* the index of the first such book, 0 when there is none.
find(items, filename) ==
  LET hits == { k \in 1..Len(items) :
                  toLowerCase(items[k].filename) = toLowerCase(filename) }
  IN IF hits = {} THEN 0 ELSE CHOOSE k \in hits : \A n \in hits : k <= n

\* handleRequest, lines 117-136: list /books and look the filename up.
handleRequestList(i, res) ==
  LET h == Answered(Http(i, "GET /books"), res)
      try ==
        IF res = ListFailed THEN { Throw(h) }
        ELSE IF ~res.ok
          THEN EditOrReply(h, "Download failed: could not list books")
        ELSE LET items == IF res.isArray THEN res.items ELSE <<>>
             IN IF find(items, i.filename) = 0
                  THEN EditOrReply(h, "Download failed: book_not_found")
                  ELSE { [h EXCEPT !.pc = "request.byId"] }
  IN RequestCatch(try)

HandleRequestListSucc(i) ==
  UNION { { IF r.pc = "request.byId" THEN r ELSE Settle(r)
            : r \in handleRequestList(i, res) }
          : res \in ListAnswers }

HandleRequestList ==
  /\ ev.pc = "request.list"
  /\ ev' \in HandleRequestListSucc(ev)
  /\ UNCHANGED <<cfgVars, probe, peer, host, script>>

\* fetchAndReplyWithFile, lines 25-53.
fetchAndReplyWithFile(i, request, outcome) ==
  LET h == Http(i, request)
  IN IF outcome = "throw" THEN { Throw(h) }
     ELSE IF outcome = "notok" THEN EditOrReply(h, "Download failed")
     ELSE EditOrReply(h, "Uploading")

\* handleRequest, lines 138-148: the by-id download.
HandleRequestByIdSucc(i) ==
  UNION { { Settle(r)
            : r \in RequestCatch(
                fetchAndReplyWithFile(i, "GET /books/:id/download", outcome)) }
          : outcome \in HttpOutcomes }

HandleRequestById ==
  /\ ev.pc = "request.byId"
  /\ ev' \in HandleRequestByIdSucc(ev)
  /\ UNCHANGED <<cfgVars, probe, peer, host, script>>

\* handleButton, lines 26-60 and 107-117: parse the custom id; answer an
\* unknown id and ASK at once; defer for UPLOAD.
\* A variant that goes on to the download with an id that did not parse.
handleButtonStart_UnparsedGoesOn(i) ==
  LET parsed == parseCustomId(i.customId)
  IN IF ~parsed.ok \/ parsed.action = "UPLOAD"
       THEN { [r EXCEPT !.pc = "button.download"]
              : r \in Defer(Log(i, "info", "BUTTON UPLOAD clicked"),
                            "Failed to defer reply (BUTTON UPLOAD)") }
     ELSE { Settle(r)
            : r \in FollowUpOrReply(Log(i, "info", "BUTTON ASK clicked"),
                                    "Use /librarian chat to ask your question.") }

handleButtonStart(i) ==
  LET parsed == parseCustomId(i.customId)
  IN IF ~parsed.ok
       THEN { Settle(r)
              : r \in FollowUpOrReply(Log(i, "warn", "Unknown or malformed custom_id"),
                                      "Unknown action for this button.") }
     ELSE IF parsed.action = "UPLOAD"
       THEN { [r EXCEPT !.pc = "button.download"]
              : r \in Defer(Log(i, "info", "BUTTON UPLOAD clicked"),
                            "Failed to defer reply (BUTTON UPLOAD)") }
     ELSE { Settle(r)
            : r \in FollowUpOrReply(Log(i, "info", "BUTTON ASK clicked"),
                                    "Use /librarian chat to ask your question.") }

HandleButton ==
  /\ ev.pc = "button"
  /\ ev' \in handleButtonStart(ev)
  /\ UNCHANGED <<cfgVars, probe, peer, host, script>>

\* handleButton, lines 62-105: the download of UPLOAD.
handleButtonDownload(i, outcome) ==
  LET parsed == parseCustomId(i.customId)
      h == Http(i, IF parsed.key = "id"
                     THEN "GET /books/:id/download"
                     ELSE "GET /books/by-filename/:filename/download")
      try ==
        IF outcome = "throw" THEN { Throw(h) }
        ELSE IF outcome = "notok" THEN EditOrReply(h, "Download failed")
        ELSE EditOrReply(h, "Uploading")
  IN UNION { IF r.thrown
               THEN EditOrReply([r EXCEPT !.thrown = FALSE], "Download failed")
               ELSE {r}
             : r \in try }

HandleButtonDownloadSucc(i) ==
  UNION { { Settle(r) : r \in handleButtonDownload(i, outcome) }
          : outcome \in HttpOutcomes }

HandleButtonDownload ==
  /\ ev.pc = "button.download"
  /\ ev' \in HandleButtonDownloadSucc(ev)
  /\ UNCHANGED <<cfgVars, probe, peer, host, script>>

\* ---------------------------------------------------------- mention upload
\* message.reply and message.react: the call succeeds or throws.
MessageSend(i, op, content) ==
  { [i EXCEPT !.out = Append(@, [op |-> op, content |-> content, ok |-> ok]),
              !.thrown = ~ok] : ok \in BOOLEAN }

\* The end of the messageCreate listener's try block.
MessageSettle(i) ==
  IF i.thrown
    THEN Log([i EXCEPT !.pc = "done", !.thrown = FALSE],
             "error", "Unhandled error in messageCreate (mention upload)")
    ELSE [i EXCEPT !.pc = "done"]

\* client.on('messageCreate'): a message arrives.
MessageCreate ==
  /\ host.pc = "ready"
  /\ ev.pc = "idle"
  /\ ev' \in Messages
  /\ UNCHANGED <<cfgVars, probe, peer, host, script>>

RECURSIVE pdfAttachments(_)
pdfAttachments(attachments) ==
  IF attachments = <<>> THEN <<>>
  ELSE IF Head(attachments) \in {"pdf", "bigpdf"}
    THEN <<Head(attachments)>> \o pdfAttachments(Tail(attachments))
    ELSE pdfAttachments(Tail(attachments))

\* A variant that does not ask for the channel.
MentionGuardSucc_NoChannelCheck(i) ==
  LET pdfs == pdfAttachments(i.message.attachments)
      g1 == [i EXCEPT !.gate = Append(@, "isGuildAllowed")]
  IN IF i.message.bot THEN { MessageSettle(i) }
     ELSE IF ~i.message.mentioned THEN { MessageSettle(i) }
     ELSE IF pdfs = <<>> THEN { MessageSettle(i) }
     ELSE IF i.guildId = Absent \/ i.channelId = Absent THEN { MessageSettle(i) }
     ELSE IF ~isGuildAllowed(i.guildId)
       THEN { MessageSettle(Log(g1, "info", "Upload mention from non-allowed guild")) }
     ELSE { Invoke([g1 EXCEPT !.message.pending = pdfs], "handleMentionUpload", "m.attachment") }

\* index.ts, lines 61-64, and handleMentionUpload, lines 22-49: the guards.
MentionGuardSucc(i) ==
  LET pdfs == pdfAttachments(i.message.attachments)
      g1 == [i EXCEPT !.gate = Append(@, "isGuildAllowed")]
      g2 == [g1 EXCEPT !.gate = Append(@, "isChannelAllowed")]
  IN IF i.message.bot THEN { MessageSettle(i) }
     ELSE IF ~i.message.mentioned THEN { MessageSettle(i) }
     ELSE IF pdfs = <<>> THEN { MessageSettle(i) }
     ELSE IF i.guildId = Absent \/ i.channelId = Absent THEN { MessageSettle(i) }
     ELSE IF ~isGuildAllowed(i.guildId)
       THEN { MessageSettle(Log(g1, "info", "Upload mention from non-allowed guild")) }
     ELSE IF ~isChannelAllowed(i.guildId, i.channelId)
       THEN { MessageSettle(Log(g2, "info", "Upload mention from non-allowed channel")) }
     ELSE { Invoke([g2 EXCEPT !.message.pending = pdfs], "handleMentionUpload", "m.attachment") }

MentionGuard ==
  /\ ev.pc = "m.start"
  /\ ev' \in MentionGuardSucc(ev)
  /\ UNCHANGED <<cfgVars, probe, peer, host, script>>

\* The for loop goes on to the next attachment, or the handler returns; a
\* throw leaves the handler.
NextAttachment(i) ==
  IF i.thrown THEN MessageSettle(i)
  ELSE LET r == [i EXCEPT !.message.pending = Tail(@)]
       IN IF r.message.pending = <<>> THEN MessageSettle(r)
          ELSE [r EXCEPT !.pc = "m.attachment"]

\* handleMentionUpload, lines 52-66: the size check and the reaction.
MentionAttachmentSucc(i) ==
  IF Head(i.message.pending) = "bigpdf"
    THEN { NextAttachment(r) : r \in MessageSend(i, "reply", "is too large") }
    ELSE { [r EXCEPT !.pc = "m.download", !.thrown = FALSE]
           : r \in MessageSend(i, "react", "books") }

MentionAttachment ==
  /\ ev.pc = "m.attachment"
  /\ ev' \in MentionAttachmentSucc(ev)
  /\ UNCHANGED <<cfgVars, probe, peer, host, script>>

\* handleMentionUpload, lines 127-130: the catch block of one attachment.
MentionCatch(S) ==
  UNION { IF r.thrown
            THEN MessageSend(Log([r EXCEPT !.thrown = FALSE],
                                 "error", "Mention upload request failed"),
                             "reply", "Upload failed")
            ELSE {r}
          : r \in S }

\* handleMentionUpload, lines 68-76: the download from the platform CDN.
MentionDownloadSucc(i) ==
  UNION {
    LET h == Http(i, "GET attachment.url")
    IN IF outcome = "ok" THEN { [h EXCEPT !.pc = "m.upload"] }
       ELSE { NextAttachment(r) : r \in MentionCatch({ Throw(h) }) }
    : outcome \in HttpOutcomes }

MentionDownload ==
  /\ ev.pc = "m.download"
  /\ ev' \in MentionDownloadSucc(ev)
  /\ UNCHANGED <<cfgVars, probe, peer, host, script>>

\* handleMentionUpload, lines 78-126: the upload to the backend and the reply.
\* The answer's status is not looked at: "ok" is a body with success true,
\* "notok" one with success false, "throw" a failed request or body.
MentionUploadSucc(i) ==
  UNION {
    LET h == Http(i, "POST /upload")
        try ==
          IF outcome = "throw" THEN { Throw(h) }
          ELSE { IF r.thrown THEN r ELSE Log(r, "info", "MENTION UPLOAD completed")
                 : r \in MessageSend(h, "reply",
                                     IF outcome = "ok" THEN "has been indexed"
                                                       ELSE "Failed to process") }
    IN { NextAttachment(r) : r \in MentionCatch(try) }
    : outcome \in HttpOutcomes }

MentionUpload ==
  /\ ev.pc = "m.upload"
  /\ ev' \in MentionUploadSucc(ev)
  /\ UNCHANGED <<cfgVars, probe, peer, host, script>>

\* ------------------------------------------------------- concurrent events
\* All that one listener invocation can do next, from where it stands.
Successors(i) ==
  CASE i.pc = "start" -> IF inGuild(i) THEN ContextGuardSucc(i) ELSE DMGuardSucc(i)
    [] i.pc = "route" -> RouteSucc(i)
    [] i.pc = "caught" -> ListenerCatchSucc(i)
    [] i.pc = "done" -> { NoInteraction }
    [] i.pc = "chat" -> HandleChatDeferSucc(i)
    [] i.pc = "chat.fetch" -> HandleChatFetchSucc(i)
    [] i.pc = "search" -> HandleSearchDeferSucc(i)
    [] i.pc = "search.fetch" -> HandleSearchFetchSucc(i)
    [] i.pc = "request" -> HandleRequestDeferSucc(i)
    [] i.pc = "request.byFilename" -> HandleRequestByFilenameSucc(i)
    [] i.pc = "request.list" -> HandleRequestListSucc(i)
    [] i.pc = "request.byId" -> HandleRequestByIdSucc(i)
    [] i.pc = "button" -> handleButtonStart(i)
    [] i.pc = "button.download" -> HandleButtonDownloadSucc(i)
    [] i.pc = "m.start" -> MentionGuardSucc(i)
    [] i.pc = "m.attachment" -> MentionAttachmentSucc(i)
    [] i.pc = "m.download" -> MentionDownloadSucc(i)
    [] i.pc = "m.upload" -> MentionUploadSucc(i)
    [] OTHER -> {}

\* The events of the two listeners that are let overlap.
ConcEvents ==
  { i \in Interactions :
      /\ i.channelId # Absent
      /\ \/ i.type = "command" /\ i.sub = "search"
         \/ i.type = "command" /\ i.commandName = "other" /\ i.channelId = 1
         \/ i.type = "button" /\ i.customId = UploadByBookId /\ i.channelId = 1 }
    \cup { m \in Messages :
             /\ ~m.message.bot /\ m.message.mentioned
             /\ m.message.attachments = <<"pdf">>
             /\ m.guildId # Absent /\ m.channelId = 1 }

Arrival(e) == IF e.type = "message" THEN e ELSE Log(e, "interaction", "received")

EvArrives ==
  /\ host.pc = "ready"
  /\ ev.pc = "idle"
  /\ \E e \in ConcEvents : ev' = Arrival(e)
  /\ UNCHANGED <<cfgVars, probe, peer, host, script>>

EvStep ==
  /\ ev' \in Successors(ev)
  /\ UNCHANGED <<cfgVars, probe, peer, host, script>>

PeerArrives ==
  /\ host.pc = "ready"
  /\ peer.pc = "idle"
  /\ \E e \in ConcEvents : peer' = Arrival(e)
  /\ UNCHANGED <<cfgVars, probe, ev, host, script>>

PeerStep ==
  /\ peer' \in Successors(peer)
  /\ UNCHANGED <<cfgVars, probe, ev, host, script>>

\* ----------------------------------------------------------------- startup
\* An environment variable is unset, or set to a string of characters.
EnvUnset == [set |-> FALSE, v |-> <<>>]
EnvValue(chars) == [set |-> TRUE, v |-> chars]

\* A variant that takes every value other than a refusal for yes.
NonverifiedServersAllowed_AnythingButNo(v) ==
  IF ~v.set \/ v.v = <<>> THEN TRUE
  ELSE LET normalized == toLowerCase(trim(v.v))
       IN normalized \notin { <<"0">>, <<"f","a","l","s","e">>, <<"n","o">> }

\* EnvSchema.NONVERIFIED_SERVERS_ALLOWED: the transform of the optional string.
NonverifiedServersAllowed(v) ==
  IF ~v.set \/ v.v = <<>> THEN TRUE
  ELSE LET normalized == toLowerCase(trim(v.v))
       IN normalized \in { <<"1">>, <<"t","r","u","e">>, <<"y","e","s">> }

FlagValues ==
  { EnvUnset, EnvValue(<<>>), EnvValue(<<"1">>), EnvValue(<<"0">>),
    EnvValue(<<"t","r","u","e">>), EnvValue(<<"T","R","U","E">>),
    EnvValue(<<"T","r","u","e">>), EnvValue(<<"y","e","s">>),
    EnvValue(<<"Y","E","S">>), EnvValue(<<" ","y","e","s"," ">>),
    EnvValue(<<"f","a","l","s","e">>), EnvValue(<<"n","o">>),
    EnvValue(<<"o","n">>), EnvValue(<<"y">>), EnvValue(<<" ">>),
    EnvValue(<<"t","r","u","e","1">>) }

NoResult == NotLoaded(<<>>, <<>>, FALSE)

\* z.string().min(1): the variable is set to a non-empty string.
Required(v) == v.set /\ Len(v.v) >= 1

\* z.string().url(): the string has a scheme, letters followed by ':'.
IsLetter(ch) == \E n \in 1..26 : ch = UpperCase[n] \/ ch = LowerCase[n]
IsUrl(str) ==
  \E n \in 2..Len(str) :
    /\ str[n] = ":"
    /\ \A k \in 1..(n - 1) : IsLetter(str[k])

\* z.enum([...]) of LOG_LEVEL.
LogLevels ==
  { <<"f","a","t","a","l">>, <<"e","r","r","o","r">>, <<"w","a","r","n">>, <<"i","n","f","o">>, <<"d","e","b","u","g">>, <<"t","r","a","c","e">>, <<"s","i","l","e","n","t">> }

TokenValues == { EnvUnset, EnvValue(<<>>), EnvValue(<<"t","0","k">>) }
AppIdValues == { EnvUnset, EnvValue(<<>>), EnvValue(<<"7">>) }
BaseUrlValues ==
  { EnvUnset, EnvValue(<<>>), EnvValue(<<"h","t","t","p",":","/","/","x">>), EnvValue(<<"x">>) }
LogLevelValues == { EnvUnset, EnvValue(<<>>), EnvValue(<<"i","n","f","o">>), EnvValue(<<"l","o","u","d">>) }

\* The process before env.ts is evaluated.
ColdWith(files, env) ==
  [pc |-> "env", files |-> files, env |-> env,
   parsed |-> TRUE, issues |-> <<>>, loaded |-> NoResult, console |-> <<>>,
   log |-> <<>>, client |-> FALSE, exitCode |-> 0]

Cold(files, flagValue, contact) ==
  ColdWith(files,
           [DISCORD_TOKEN |-> EnvValue(<<"t","0","k">>),
            DISCORD_APP_ID |-> EnvValue(<<"7">>),
            LIBRARIAN_BASE_URL |-> EnvUnset,
            LOG_LEVEL |-> EnvUnset,
            NONVERIFIED_SERVERS_ALLOWED |-> flagValue,
            DISCORD_CONTACT_USER_ID |-> contact])

\* The issues EnvSchema.safeParse finds, by the path of the variable.
EnvIssues(env) ==
  (IF Required(env.DISCORD_TOKEN) THEN <<>> ELSE <<"DISCORD_TOKEN">>)
  \o (IF Required(env.DISCORD_APP_ID) THEN <<>> ELSE <<"DISCORD_APP_ID">>)
  \o (IF ~env.LIBRARIAN_BASE_URL.set \/ IsUrl(env.LIBRARIAN_BASE_URL.v)
        THEN <<>> ELSE <<"LIBRARIAN_BASE_URL">>)
  \o (IF ~env.LOG_LEVEL.set \/ env.LOG_LEVEL.v \in LogLevels
        THEN <<>> ELSE <<"LOG_LEVEL">>)

\* A variant that lets an empty credential through.
parseEnv_EmptyCredentialPasses(h) ==
  LET issues == EnvIssues([h.env EXCEPT
                             !.DISCORD_TOKEN = IF @.set THEN EnvValue(<<"x">>) ELSE @,
                             !.DISCORD_APP_ID = IF @.set THEN EnvValue(<<"x">>) ELSE @])
  IN IF issues # <<>>
       THEN [h EXCEPT !.pc = "invalid", !.issues = issues, !.exitCode = 1]
       ELSE [h EXCEPT !.pc = "load",
                      !.parsed = NonverifiedServersAllowed(h.env.NONVERIFIED_SERVERS_ALLOWED)]

\* env.ts, lines 87-93: EnvSchema.safeParse(process.env); a failure throws
\* "Invalid environment configuration: <path>: <message>; ..." out of the
\* module, which ends the process.
parseEnv(h) ==
  LET issues == EnvIssues(h.env)
  IN IF issues # <<>>
       THEN [h EXCEPT !.pc = "invalid", !.issues = issues, !.exitCode = 1]
       ELSE [h EXCEPT !.pc = "load",
                      !.parsed = NonverifiedServersAllowed(h.env.NONVERIFIED_SERVERS_ALLOWED)]

\* env.ts, lines 95-100: the map is loaded once, and the path is reported.
loadOnce(h) ==
  LET r == loadAllowedContext(h.files, 1, <<>>)
      warned == IF r.warned
                  THEN Append(h.console, <<"warn", "Failed to load allowed-context.json", 0>>)
                  ELSE h.console
  IN IF r.threw THEN [h EXCEPT !.pc = "aborted", !.loaded = r]
     ELSE [h EXCEPT !.pc = "config", !.loaded = r,
             !.console = IF r.loadedPath # 0
                           THEN Append(warned, <<"info", "loaded allowed-context.json from", r.loadedPath>>)
                           ELSE warned]

\* The process once env.ts has been evaluated.
Booted(files, flagValue, contact) ==
  [loadOnce(parseEnv(Cold(files, flagValue, contact))) EXCEPT !.pc = "ready", !.client = TRUE]

ParseEnv ==
  /\ host.pc = "env"
  /\ host' = parseEnv(host)
  /\ UNCHANGED <<cfgVars, probe, ev, peer, script>>

LoadAllowedContext ==
  /\ host.pc = "load"
  /\ host' = loadOnce(host)
  /\ allowedMap' = host'.loaded.map
  /\ UNCHANGED <<nonverifiedServersAllowed, contactUserId, probe, ev, peer, script>>

\* env.ts, lines 112-120: the exported config.
ExportConfig ==
  /\ host.pc = "config"
  /\ host' = [host EXCEPT !.pc = "main"]
  /\ nonverifiedServersAllowed' = host.parsed
  /\ contactUserId' = host.env.DISCORD_CONTACT_USER_ID
  /\ UNCHANGED <<allowedMap, probe, ev, peer, script>>

\* main, lines 16-68: the client is created and the listeners are attached.
CreateClient ==
  /\ host.pc = "main"
  /\ host' = [host EXCEPT !.pc = "login", !.client = TRUE,
                          !.log = Append(@, <<"info", "Boot starting">>)]
  /\ UNCHANGED <<cfgVars, probe, ev, peer, script>>

\* main, line 70, and lines 73-76: the login succeeds, or its failure is
\* logged as fatal and sets the exit code.
LoginClient ==
  /\ host.pc = "login"
  /\ \/ host' = [host EXCEPT !.pc = "ready",
                             !.log = Append(@, <<"info", "Discord client logged in">>)]
     \/ host' = [host EXCEPT !.pc = "fatal", !.exitCode = 1,
                             !.log = Append(@, <<"error", "Fatal boot error">>)]
  /\ UNCHANGED <<cfgVars, probe, ev, peer, script>>

\* ---------------------------------------------------- flat allow-lists
\* The earlier gate: config.allowedGuildIds and config.allowedChannelIds are
\* flat lists read from the environment, empty meaning no restriction.
FlatGuildIds == 1..(NumGuilds + 1)
FlatLists(ids) == { SeqOf(S) : S \in SUBSET ids }
includes(list, id) == \E k \in 1..Len(list) : list[k] = id

allowAllGuilds(cfg) == Len(cfg.allowedGuildIds) = 0
allowAllChannels(cfg) == Len(cfg.allowedChannelIds) = 0

flatIsGuildAllowed(cfg, guildId) ==
  IF allowAllGuilds(cfg) THEN TRUE
  ELSE IF guildId = Absent THEN FALSE
  ELSE includes(cfg.allowedGuildIds, guildId)

flatIsChannelAllowed(cfg, channelId) ==
  IF allowAllChannels(cfg) THEN TRUE
  ELSE IF channelId = Absent THEN FALSE
  ELSE includes(cfg.allowedChannelIds, channelId)

\* A variant that looks at the channel list first.
isAllowedContext_ChannelFirst(cfg, guildId, channelId) ==
  IF guildId = Absent
    THEN [allowed |-> FALSE, reason |-> "dm_disallowed", gate |-> <<>>]
  ELSE IF Len(cfg.allowedChannelIds) > 0 /\ ~includes(cfg.allowedChannelIds, channelId)
    THEN [allowed |-> FALSE, reason |-> "channel_not_allowed",
          gate |-> <<"deny", "channel_not_allowed">>]
  ELSE IF Len(cfg.allowedGuildIds) > 0 /\ ~includes(cfg.allowedGuildIds, guildId)
    THEN [allowed |-> FALSE, reason |-> "guild_not_allowed",
          gate |-> <<"deny", "guild_not_allowed">>]
  ELSE [allowed |-> TRUE, reason |-> "", gate |-> <<"allow", "context_allowed">>]

\* client.ts, isAllowedContext: { allowed, reason? } and the gate log line.
isAllowedContext(cfg, guildId, channelId) ==
  IF guildId = Absent
    THEN [allowed |-> FALSE, reason |-> "dm_disallowed", gate |-> <<>>]
  ELSE IF Len(cfg.allowedGuildIds) > 0 /\ ~includes(cfg.allowedGuildIds, guildId)
    THEN [allowed |-> FALSE, reason |-> "guild_not_allowed",
          gate |-> <<"deny", "guild_not_allowed">>]
  ELSE IF Len(cfg.allowedChannelIds) > 0 /\ ~includes(cfg.allowedChannelIds, channelId)
    THEN [allowed |-> FALSE, reason |-> "channel_not_allowed",
          gate |-> <<"deny", "channel_not_allowed">>]
  ELSE [allowed |-> TRUE, reason |-> "", gate |-> <<"allow", "context_allowed">>]

\* A caller with a configuration and the identifiers of an event; in a guild
\* the event has a channel.
FlatInputs ==
  { [cfg |-> [allowedGuildIds |-> gs, allowedChannelIds |-> cs],
     guildId |-> g, channelId |-> c, called |-> "", result |-> <<>>]
    : gs \in FlatLists(FlatGuildIds), cs \in FlatLists(ChannelIds),
      g \in FlatGuildIds \cup {Absent}, c \in ChannelIds }

CallIsAllowedContext ==
  /\ probe.called = ""
  /\ probe' = [probe EXCEPT !.called = "isAllowedContext",
                 !.result = <<isAllowedContext(probe.cfg, probe.guildId, probe.channelId)>>]
  /\ UNCHANGED <<cfgVars, ev, peer, host, script>>

CallFlatIsGuildAllowed ==
  /\ probe.called = ""
  /\ probe' = [probe EXCEPT !.called = "isGuildAllowed",
                 !.result = <<flatIsGuildAllowed(probe.cfg, probe.guildId)>>]
  /\ UNCHANGED <<cfgVars, ev, peer, host, script>>

CallFlatIsChannelAllowed ==
  /\ probe.called = ""
  /\ probe' = [probe EXCEPT !.called = "isChannelAllowed",
                 !.result = <<flatIsChannelAllowed(probe.cfg, probe.channelId)>>]
  /\ UNCHANGED <<cfgVars, ev, peer, host, script>>

\* ------------------------------------------------------- register-commands
\* (v ?? '').split(',').map((s) => s.trim()).filter(Boolean)
RECURSIVE TrimAndFilter(_)
TrimAndFilter(items) ==
  IF items = <<>> THEN <<>>
  ELSE LET t == trim(Head(items))
       IN (IF t = <<>> THEN <<>> ELSE <<t>>) \o TrimAndFilter(Tail(items))

csvToList(v) == TrimAndFilter(Split(IF v.set THEN v.v ELSE <<>>, ","))

\* The values of DISCORD_ALLOWED_GUILD_IDS the script is run with.
CsvAlphabet == { "1", "2", ",", " " }
GuildListValues ==
  { EnvUnset } \cup { EnvValue(str) : str \in UNION { [1..n -> CsvAlphabet] : n \in 0..MaxCsvLen } }

\* The script before main runs.
NoScript ==
  [pc |-> "idle", env |-> EnvUnset, allowedGuildIds |-> <<>>, i |-> 0,
   requests |-> <<>>, log |-> <<>>, exitCode |-> 0]

ScriptLog(sc, level, msg, guildId) == [sc EXCEPT !.log = Append(@, <<level, msg, guildId>>)]

\* rest.put(route, { body }): the request is sent; it succeeds or rejects.
Put(sc, route, guildId, ok) ==
  [sc EXCEPT !.requests = Append(@, [route |-> route, guildId |-> guildId, ok |-> ok])]

\* main().catch: the failure is logged and the exit code set.
ScriptFailed(sc) ==
  [ScriptLog(sc, "error", "register-commands failed", <<>>)
     EXCEPT !.pc = "exited", !.exitCode = 1]

\* main, lines 14-26: the list is read from the environment.
RegisterMain ==
  /\ script.pc = "idle"
  /\ LET ids == csvToList(script.env)
     IN script' = [script EXCEPT !.allowedGuildIds = ids, !.i = 0,
                     !.pc = IF Len(ids) = 0 THEN "global" ELSE "guilds"]
  /\ UNCHANGED <<cfgVars, probe, ev, peer, host>>

\* A variant that returns when the list is empty.
registerGlobal_Skips(sc, ok) ==
  [ScriptLog(sc, "warn", "No DISCORD_ALLOWED_GUILD_IDS set; skipping guild command registration", <<>>)
     EXCEPT !.pc = "exited", !.exitCode = 0]

\* main, lines 26-32: with no guild listed the command is registered globally.
registerGlobal(sc, ok) ==
  LET told == ScriptLog(sc, "info",
                "No DISCORD_ALLOWED_GUILD_IDS set; registering GLOBAL application commands", <<>>)
      sent == Put(told, "applicationCommands", <<>>, ok)
  IN IF ok
       THEN [ScriptLog(sent, "info", "Registered GLOBAL application commands", <<>>)
               EXCEPT !.pc = "exited", !.exitCode = 0]
       ELSE ScriptFailed(sent)

RegisterGlobal ==
  /\ script.pc = "global"
  /\ \E ok \in BOOLEAN : script' = registerGlobal(script, ok)
  /\ UNCHANGED <<cfgVars, probe, ev, peer, host>>

\* A variant that gives up at any failure.
registerGuild_AnyFailureAborts(sc, ok) ==
  LET guildId == sc.allowedGuildIds[sc.i + 1]
      told == ScriptLog(sc, "info", "Registering commands for guild", guildId)
      sent == Put(told, "applicationGuildCommands", guildId, ok)
  IN IF ok
       THEN [ScriptLog(sent, "info", "Registered commands for guild", guildId)
               EXCEPT !.i = @ + 1]
       ELSE ScriptFailed(ScriptLog(sent, "error", "Failed to register commands for guild", guildId))

\* main, lines 34-46: one turn of the loop over the listed guilds.
registerGuild(sc, ok) ==
  LET guildId == sc.allowedGuildIds[sc.i + 1]
      told == ScriptLog(sc, "info", "Registering commands for guild", guildId)
      sent == Put(told, "applicationGuildCommands", guildId, ok)
  IN IF ok
       THEN [ScriptLog(sent, "info", "Registered commands for guild", guildId)
               EXCEPT !.i = @ + 1]
       ELSE LET failed == ScriptLog(sent, "error", "Failed to register commands for guild", guildId)
            IN IF sc.i = 0 THEN ScriptFailed(failed)
               ELSE [failed EXCEPT !.i = @ + 1]

RegisterGuild ==
  /\ script.pc = "guilds"
  /\ script.i < Len(script.allowedGuildIds)
  /\ \E ok \in BOOLEAN : script' = registerGuild(script, ok)
  /\ UNCHANGED <<cfgVars, probe, ev, peer, host>>

\* main, line 47: the loop is over and main returns.
RegisterReturn ==
  /\ script.pc = "guilds"
  /\ script.i = Len(script.allowedGuildIds)
  /\ script' = [script EXCEPT !.pc = "exited"]
  /\ UNCHANGED <<cfgVars, probe, ev, peer, host>>

\* ----------------------------------------------------------- specifications
\* A value of NONVERIFIED_SERVERS_ALLOWED that yields the flag.
FlagOf(flag) == IF flag THEN EnvUnset ELSE EnvValue(<<"f","a","l","s","e">>)

\* The process after startup: the allow-list and the flags are loaded, no
\* interaction has arrived.
Init ==
  /\ allowedMap \in AllowedContextMaps
  /\ nonverifiedServersAllowed \in BOOLEAN
  /\ contactUserId \in ContactIds
  /\ probe = NoProbe
  /\ ev = NoInteraction
  /\ peer = NoInteraction
  /\ script = NoScript
  /\ host = Booted(<<DocumentOf(allowedMap), Missing>>,
                   FlagOf(nonverifiedServersAllowed), contactUserId)

Next ==
  \/ InteractionCreate
  \/ DMGuard
  \/ ContextGuard
  \/ Route
  \/ HandleChatDefer
  \/ HandleChatFetch
  \/ HandleSearchDefer
  \/ HandleSearchFetch
  \/ HandleRequestDefer
  \/ HandleRequestByFilename
  \/ HandleRequestList
  \/ HandleRequestById
  \/ HandleButton
  \/ HandleButtonDownload
  \/ ListenerCatch
  \/ ListenerReturn
  \/ MessageCreate
  \/ MentionGuard
  \/ MentionAttachment
  \/ MentionDownload
  \/ MentionUpload

Spec == Init /\ [][Next]_vars

\* The gate functions called directly on every pair of identifiers.
GateInit ==
  /\ allowedMap \in AllowedContextMaps
  /\ nonverifiedServersAllowed \in BOOLEAN
  /\ contactUserId = ""
  /\ probe \in ProbeInputs
  /\ ev = NoInteraction
  /\ peer = NoInteraction
  /\ script = NoScript
  /\ host = Booted(<<DocumentOf(allowedMap), Missing>>,
                   FlagOf(nonverifiedServersAllowed), contactUserId)

GateNext == CallIsGuildAllowed \/ CallIsChannelAllowed

GateSpec == GateInit /\ [][GateNext]_vars

\* parseCustomId called on every custom id of ParseInputs.
ParseInit ==
  /\ allowedMap = NullMap
  /\ nonverifiedServersAllowed = TRUE
  /\ contactUserId = ""
  /\ probe \in ParseInputs
  /\ ev = NoInteraction
  /\ peer = NoInteraction
  /\ script = NoScript
  /\ host = Booted(<<Missing, Missing>>, EnvUnset, "")

ParseNext == CallParseCustomId

ParseSpec == ParseInit /\ [][ParseNext]_vars

\* The register-commands script run with every value of
\* DISCORD_ALLOWED_GUILD_IDS.
RegisterInit ==
  /\ allowedMap = NullMap
  /\ nonverifiedServersAllowed = TRUE
  /\ contactUserId = ""
  /\ probe = NoProbe
  /\ ev = NoInteraction
  /\ peer = NoInteraction
  /\ host = Booted(<<Missing, Missing>>, EnvUnset, "")
  /\ \E v \in GuildListValues : script = [NoScript EXCEPT !.env = v]

RegisterNext == RegisterMain \/ RegisterGlobal \/ RegisterGuild \/ RegisterReturn

RegisterSpec == RegisterInit /\ [][RegisterNext]_vars

\* The flat gate called on every configuration and every pair of identifiers.
FlatInit ==
  /\ allowedMap = NullMap
  /\ nonverifiedServersAllowed = TRUE
  /\ contactUserId = ""
  /\ probe \in FlatInputs
  /\ ev = NoInteraction
  /\ peer = NoInteraction
  /\ script = NoScript
  /\ host = Booted(<<Missing, Missing>>, EnvUnset, "")

FlatNext == CallIsAllowedContext \/ CallFlatIsGuildAllowed \/ CallFlatIsChannelAllowed

FlatSpec == FlatInit /\ [][FlatNext]_vars

\* The buttons built for every answer of the backend's search.
ButtonsInit ==
  /\ allowedMap = NullMap
  /\ nonverifiedServersAllowed = TRUE
  /\ contactUserId = ""
  /\ \E m \in MatchLists : probe = [matches |-> m, built |-> FALSE, components |-> <<>>]
  /\ ev = NoInteraction
  /\ peer = NoInteraction
  /\ script = NoScript
  /\ host = Booted(<<Missing, Missing>>, EnvUnset, "")

ButtonsNext == BuildComponents

ButtonsSpec == ButtonsInit /\ [][ButtonsNext]_vars

\* Two events in flight at once, their steps interleaved in every order.
ConcMaps ==
  { NullMap, [present |-> TRUE, entries |-> <<>>],
    [present |-> TRUE, entries |-> [g \in {1} |-> {1}]] }
ConcInit ==
  /\ allowedMap \in ConcMaps
  /\ nonverifiedServersAllowed \in BOOLEAN
  /\ contactUserId = ""
  /\ probe = NoProbe
  /\ ev = NoInteraction
  /\ peer = NoInteraction
  /\ script = NoScript
  /\ host = Booted(<<DocumentOf(allowedMap), Missing>>,
                   FlagOf(nonverifiedServersAllowed), contactUserId)

ConcNext == EvArrives \/ EvStep \/ PeerArrives \/ PeerStep

ConcSpec == ConcInit /\ [][ConcNext]_vars

\* The running process while somebody deletes, empties or restores
\* allowed-context.json.
EditedFiles == { Missing, JsonObject(<<>>) }
FileChanged ==
  /\ \E file \in EditedFiles \cup {DocumentOf(allowedMap)} :
       /\ file # host.files[1]
       /\ host' = [host EXCEPT !.files[1] = file]
  /\ UNCHANGED <<cfgVars, probe, ev, peer, script>>

LifeInit == Init /\ contactUserId = ""

LifeNext == Next \/ FileChanged

LifeSpec == LifeInit /\ [][LifeNext]_vars

\* The evaluation of env.ts at process start, for every pair of candidate
\* files with the flag unset or refused, and for every value of the flag
\* with a few pairs of files.
FewFiles ==
  { <<Missing, Missing>>, <<DocumentOf(NullMap), InvalidJson>>,
    <<JsonObject(<<>>), Missing>> }
StartupInit ==
  /\ allowedMap = NullMap
  /\ nonverifiedServersAllowed = TRUE
  /\ contactUserId = ""
  /\ probe = NoProbe
  /\ ev = NoInteraction
  /\ peer = NoInteraction
  /\ script = NoScript
  /\ \/ \E files \in (Files \X Files), flagValue \in FlagValues :
            /\ (files \in FewFiles \/ flagValue \in {EnvUnset, EnvValue(<<"n","o">>)})
            /\ host = Cold(files, flagValue, "900")
     \/ \E files \in FewFiles \cup {<<InvalidJson, Missing>>},
           token \in TokenValues, appId \in AppIdValues,
           baseUrl \in BaseUrlValues, logLevel \in LogLevelValues :
            host = ColdWith(files,
                            [DISCORD_TOKEN |-> token, DISCORD_APP_ID |-> appId,
                             LIBRARIAN_BASE_URL |-> baseUrl, LOG_LEVEL |-> logLevel,
                             NONVERIFIED_SERVERS_ALLOWED |-> EnvUnset,
                             DISCORD_CONTACT_USER_ID |-> "900"])

StartupNext ==
  \/ ParseEnv
  \/ LoadAllowedContext
  \/ ExportConfig
  \/ CreateClient
  \/ LoginClient
  \/ EvArrives

StartupSpec == StartupInit /\ [][StartupNext]_vars

\* ------------------------------------------------------------------ claims
Arrived == ev.pc # "idle" /\ ev.type # "message"
Done == ev.pc = "done"
Contents(i) == { i.out[k].content : k \in 1..Len(i.out) }
DenialNotices ==
  { "This bot is not available in DMs.",
    "This bot is not available in this server.",
    "This bot is not available in this server. Please contact <@900>.",
    "This bot is not available in this channel." }
GenericNotice == "An unexpected error occurred."
Logged(i, level, msg) == \E k \in 1..Len(i.log) : i.log[k] = <<level, msg>>
WasCaught(i) == Logged(i, "error", "Unhandled error in interactionCreate")
DeniedContext(i) ==
  \/ ~inGuild(i)
  \/ ~isGuildAllowed(i.guildId)
  \/ ~isChannelAllowed(i.guildId, i.channelId)

\* C1: an interaction from a DM, a guild that is not allowed or a channel that
\* is not allowed never reaches the router or a leaf handler and never throws;
\* handleInteractionCreate returns, and all it sends is at most one reply, a
\* denial notice: exactly one when the interaction is repliable, none when it
\* is not.
C1_DeniedNeverDispatched ==
  (Arrived /\ DeniedContext(ev)) =>
    /\ ev.pc \in {"start", "done"}
    /\ ev.handlers = <<>>
    /\ ev.http = <<>>
    /\ ~WasCaught(ev)
    /\ Len(ev.out) <= 1
    /\ \A k \in 1..Len(ev.out) :
         ev.out[k].op = "reply" /\ ev.out[k].content \in DenialNotices
    /\ Done => Len(ev.out) = (IF isRepliable(ev) THEN 1 ELSE 0)

\* A button press in a listed guild, from a channel outside its list, ended
\* with the channel notice delivered.
C1_Witness ==
  /\ Done /\ ev.type = "button" /\ ev.customId = UploadByBookId
  /\ allowedMap.present /\ ev.guildId \in DOMAIN allowedMap.entries
  /\ ev.channelId # Absent /\ ~isChannelAllowed(ev.guildId, ev.channelId)
  /\ Len(ev.out) = 1 /\ ev.out[1].ok /\ ev.out[1].content = CHANNEL_BLOCKED

\* C2: monotonicity of the gate: for every map, flag, guild id and channel id,
\* isChannelAllowed is false whenever isGuildAllowed is false, both as the two
\* functions return when called and for every pair of identifiers.
C2_ChannelNeverExceedsGuild ==
  /\ (probe.guildRet = <<FALSE>> /\ probe.channelRet # <<>>)
       => probe.channelRet = <<FALSE>>
  /\ \A g \in GuildIds \cup {Absent}, c \in ChannelIds \cup {Absent} :
       ~isGuildAllowed(g) => ~isChannelAllowed(g, c)

\* Both functions were called on an unlisted guild the flag denies.
C2_Witness ==
  /\ allowedMap.present /\ ~nonverifiedServersAllowed
  /\ probe.guildId # Absent /\ probe.channelId # Absent
  /\ probe.guildRet = <<FALSE>> /\ probe.channelRet = <<FALSE>>

\* C3: with no allow-list map, every (non-empty) guild id is allowed and every
\* pair of non-empty guild and channel ids is allowed, whatever the flag.
C3_AbsentMapAllowsAll ==
  ~allowedMap.present =>
    /\ (probe.guildId # Absent /\ probe.guildRet # <<>>) => probe.guildRet = <<TRUE>>
    /\ (probe.guildId # Absent /\ probe.channelId # Absent /\ probe.channelRet # <<>>)
         => probe.channelRet = <<TRUE>>

\* No map, the flag off, and both calls answered true.
C3_Witness ==
  /\ ~allowedMap.present /\ ~nonverifiedServersAllowed
  /\ probe.guildRet = <<TRUE>> /\ probe.channelRet = <<TRUE>>

\* C4: with a map present and a non-empty guild id, isGuildAllowed is true for
\* a key of the map, whatever the flag and the key's channel list, and equals
\* the flag for any other guild (so under {} every guild follows the flag).
C4_GuildKeyOrPolicy ==
  (allowedMap.present /\ probe.guildId # Absent /\ probe.guildRet # <<>>) =>
    probe.guildRet =
      << IF probe.guildId \in DOMAIN allowedMap.entries
           THEN TRUE ELSE nonverifiedServersAllowed >>

\* The empty object with the flag off denied a guild that a missing file
\* would allow.
C4_Witness ==
  /\ allowedMap.present /\ DOMAIN allowedMap.entries = {}
  /\ ~nonverifiedServersAllowed
  /\ probe.guildId # Absent /\ probe.guildRet = <<FALSE>>

\* C5: for a guild that is a key of the map and a non-empty channel id, an
\* empty channel array allows every channel and a non-empty one allows exactly
\* its members; the flag plays no part.
C5_ListedGuildChannels ==
  ( /\ allowedMap.present /\ probe.guildId \in DOMAIN allowedMap.entries
    /\ probe.channelId # Absent /\ probe.channelRet # <<>> ) =>
    probe.channelRet =
      << IF allowedMap.entries[probe.guildId] = {}
           THEN TRUE ELSE probe.channelId \in allowedMap.entries[probe.guildId] >>

\* A channel outside a listed guild's non-empty list was denied with the flag on.
C5_Witness ==
  /\ allowedMap.present /\ probe.guildId \in DOMAIN allowedMap.entries
  /\ allowedMap.entries[probe.guildId] # {}
  /\ probe.channelId # Absent
  /\ probe.channelId \notin allowedMap.entries[probe.guildId]
  /\ nonverifiedServersAllowed /\ probe.channelRet = <<FALSE>>

\* C6: for a guild that is not a key of a present map and a non-empty channel
\* id, isChannelAllowed equals the flag.
C6_UnlistedGuildChannels ==
  ( /\ allowedMap.present /\ probe.guildId # Absent
    /\ probe.guildId \notin DOMAIN allowedMap.entries
    /\ probe.channelId # Absent /\ probe.channelRet # <<>> ) =>
    probe.channelRet = <<nonverifiedServersAllowed>>

\* An unlisted guild the flag allows had a channel allowed.
C6_Witness ==
  /\ allowedMap.present /\ probe.guildId # Absent
  /\ probe.guildId \notin DOMAIN allowedMap.entries
  /\ probe.channelId # Absent
  /\ nonverifiedServersAllowed /\ probe.channelRet = <<TRUE>>

\* C7: an empty or absent identifier is always denied, before the map is
\* looked at: isGuildAllowed is false for an empty guild id, isChannelAllowed
\* for an empty guild id or channel id, for every map (absent too) and flag.
C7_EmptyIdentifierDenied ==
  /\ (probe.guildId = Absent /\ probe.guildRet # <<>>) => probe.guildRet = <<FALSE>>
  /\ ((probe.guildId = Absent \/ probe.channelId = Absent) /\ probe.channelRet # <<>>)
       => probe.channelRet = <<FALSE>>

\* No map at all, a real guild id, no channel id: denied.
C7_Witness ==
  /\ ~allowedMap.present
  /\ probe.guildId # Absent /\ probe.channelId = Absent
  /\ probe.guildRet = <<TRUE>> /\ probe.channelRet = <<FALSE>>

\* C8: a DM interaction is answered by the DM guard alone, whatever the map
\* and the flag: neither gate function is evaluated, nothing is routed or
\* dispatched, nothing throws, and when it has been handled the only output
\* is one reply "This bot is not available in DMs." if the interaction is
\* repliable and nothing at all if it is not.
C8_DMShortCircuits ==
  (Arrived /\ ~inGuild(ev)) =>
    /\ ev.gate = <<>>
    /\ ev.handlers = <<>>
    /\ ev.pc \in {"start", "done"}
    /\ ~WasCaught(ev)
    /\ ~Logged(ev, "gate", "deny guild_not_allowed")
    /\ ~Logged(ev, "gate", "deny channel_not_allowed")
    /\ Done =>
         IF isRepliable(ev)
           THEN /\ Len(ev.out) = 1
                /\ ev.out[1].op = "reply"
                /\ ev.out[1].content = "This bot is not available in DMs."
           ELSE ev.out = <<>>

\* A librarian command sent by DM got the DM notice although the loaded map
\* is the empty object and the flag is off.
C8_Witness ==
  /\ Done /\ ~inGuild(ev)
  /\ ev.type = "command" /\ ev.commandName = "librarian" /\ ev.sub = "search"
  /\ allowedMap.present /\ ~nonverifiedServersAllowed
  /\ Len(ev.out) = 1 /\ ev.out[1].ok /\ ev.out[1].content = DM_BLOCKED

GateOrder == <<"isGuildAllowed", "isChannelAllowed">>
ServerNotice ==
  IF contactUserId = ""
    THEN "This bot is not available in this server."
    ELSE "This bot is not available in this server. Please contact <@"
           \o contactUserId \o ">."

\* C9: for a repliable guild interaction the guild check is evaluated first
\* and the channel check only after it passed.  A denied guild ends with the
\* guild check alone evaluated and one reply, the server notice (with
\* " Please contact <@id>." exactly when a contact id is configured); an
\* allowed guild with a denied channel ends with both evaluated and one reply,
\* the channel notice.  No interaction is sent both notices.
C9_GuildBeforeChannel ==
  (Arrived /\ inGuild(ev) /\ isRepliable(ev)) =>
    /\ ev.gate \in { SubSeq(GateOrder, 1, n) : n \in 0..2 }
    /\ Len(ev.gate) = 2 => isGuildAllowed(ev.guildId)
    /\ ~({ServerNotice, "This bot is not available in this channel."} \subseteq Contents(ev))
    /\ (Done /\ ~isGuildAllowed(ev.guildId)) =>
         /\ ev.gate = <<"isGuildAllowed">>
         /\ Logged(ev, "gate", "deny guild_not_allowed")
         /\ Len(ev.out) = 1
         /\ ev.out[1].op = "reply" /\ ev.out[1].content = ServerNotice
    /\ (Done /\ isGuildAllowed(ev.guildId) /\ ~isChannelAllowed(ev.guildId, ev.channelId)) =>
         /\ ev.gate = GateOrder
         /\ Logged(ev, "gate", "deny channel_not_allowed")
         /\ ~Logged(ev, "gate", "deny guild_not_allowed")
         /\ Len(ev.out) = 1
         /\ ev.out[1].op = "reply"
         /\ ev.out[1].content = "This bot is not available in this channel."

\* A guild the flag denies, a contact configured: the server notice with the
\* mention was delivered and the channel check never ran.
C9_Witness ==
  /\ Done /\ isRepliable(ev) /\ inGuild(ev) /\ ev.channelId # Absent
  /\ ~isGuildAllowed(ev.guildId) /\ contactUserId = "900"
  /\ ev.gate = <<"isGuildAllowed">>
  /\ Len(ev.out) = 1 /\ ev.out[1].ok
  /\ ev.out[1].content
       = "This bot is not available in this server. Please contact <@900>."

\* C10: no fault leaves the interactionCreate listener.  Nothing is ever
\* rethrown; an interaction whose handling threw ends with the error logged
\* and, being repliable, exactly one generic notice, sent last, as a followUp
\* when an earlier call had deferred or replied and as a reply otherwise,
\* whether or not that notice could be sent; an interaction whose handling
\* did not throw is sent no generic notice.
C10_NoFaultEscapes ==
  /\ ~ev.escaped
  /\ ~ev.thrown
  /\ ev.pc = "caught" => (WasCaught(ev) /\ GenericNotice \notin Contents(ev))
  /\ ~WasCaught(ev) => GenericNotice \notin Contents(ev)
  /\ (Done /\ WasCaught(ev)) =>
       IF isRepliable(ev)
         THEN LET n == Len(ev.out)
              IN /\ n >= 1
                 /\ ev.out[n].content = GenericNotice
                 /\ \A k \in 1..(n - 1) : ev.out[k].content # GenericNotice
                 /\ ev.out[n].op =
                      (IF \E k \in 1..(n - 1) : ev.out[k].ok
                         THEN "followUp" ELSE "reply")
         ELSE GenericNotice \notin Contents(ev)

\* /librarian search: the reply was deferred, the backend call threw, the
\* editReply of the handler's catch threw too, and the listener's followUp
\* failed as well; the listener still ended normally.
C10_Witness ==
  /\ Done /\ WasCaught(ev) /\ ev.handlers = <<"handleSearch">>
  /\ ev.deferred
  /\ Len(ev.out) = 3
  /\ ev.out[3].op = "followUp" /\ ev.out[3].content = GenericNotice /\ ~ev.out[3].ok
  /\ ~ev.escaped

Evaluated == host.pc \in {"config", "main", "login", "ready", "fatal"}
FirstExisting(files) ==
  IF files[1] # Missing THEN 1 ELSE IF files[2] # Missing THEN 2 ELSE 0
Printed(level, text) ==
  \E k \in 1..Len(host.console) :
    host.console[k][1] = level /\ host.console[k][2] = text
\* The map a well-formed document spells.
Spelled(file) ==
  IF file = DuplicateArray THEN [present |-> TRUE, entries |-> [g \in {1} |-> {1}]]
  ELSE CHOOSE m \in LoadedMaps : DocumentOf(m) = file

\* C11: loadAllowedContext never throws, and the evaluation of env.ts is never
\* aborted by it.  When the first existing candidate cannot be read, is not
\* JSON, or is JSON of another shape (not an object, a value that is not an
\* array, an element that is not a string), the map is null, the warning was
\* printed, and every guild and channel is allowed.
C11_LoaderFailsOpen ==
  /\ host.pc # "aborted"
  /\ ~host.loaded.threw
  /\ LET k == FirstExisting(host.files)
     IN (Evaluated /\ k # 0
          /\ host.files[k] \in {Unreadable, InvalidJson} \cup Malformed) =>
          /\ allowedMap = NullMap
          /\ host.loaded.map = NullMap
          /\ Printed("warn", "Failed to load allowed-context.json")
          /\ \A g \in GuildIds, c \in ChannelIds :
               isGuildAllowed(g) /\ isChannelAllowed(g, c)

\* A JSON string where the object belongs: startup finished with no map and
\* the warning printed.
C11_Witness ==
  /\ host.pc = "ready"
  /\ host.files[1] = JsonString(1)
  /\ allowedMap = NullMap
  /\ Printed("warn", "Failed to load allowed-context.json")

\* C12: the candidates are tried in order and only the first that exists is
\* read.  With no candidate the map is null, both paths were tested, nothing
\* was read.  Otherwise the paths up to the first existing one were tested,
\* that one alone was read, and it decides the result: the map it spells when
\* it is well-formed, null when it is not, whatever the later candidate holds.
\* The "loaded from" line was printed, naming that path, exactly when a map
\* was loaded.
C12_FirstExistingDecides ==
  Evaluated =>
    LET k == FirstExisting(host.files)
    IN /\ k = 0 => /\ allowedMap = NullMap
                   /\ host.loaded.tested = <<1, 2>>
                   /\ host.loaded.read = <<>>
                   /\ host.console = <<>>
       /\ k # 0 => /\ host.loaded.tested = [n \in 1..k |-> n]
                   /\ host.loaded.read = <<k>>
                   /\ allowedMap = (IF host.files[k] \in WellFormed
                                      THEN Spelled(host.files[k]) ELSE NullMap)
       /\ Printed("info", "loaded allowed-context.json from") <=> allowedMap.present
       /\ \A n \in 1..Len(host.console) :
            host.console[n][1] = "info" => host.console[n][3] = k
       /\ Len(host.console) <= 1

\* The first candidate is not JSON and the second is a well-formed document:
\* no map, and the second path was never tested.
C12_Witness ==
  /\ host.pc = "ready"
  /\ host.files[1] = InvalidJson /\ host.files[2] \in WellFormed
  /\ allowedMap = NullMap
  /\ host.loaded.tested = <<1>>
  /\ ~Printed("info", "loaded allowed-context.json from")

FlagVariable == host.env.NONVERIFIED_SERVERS_ALLOWED
\* The spellings among FlagValues that are 1, true or yes in some letter case.
TruthySpellings ==
  { <<"1">>, <<"t","r","u","e">>, <<"T","R","U","E">>, <<"T","r","u","e">>,
    <<"y","e","s">>, <<"Y","E","S">> }
PaddedTruthySpellings == { <<" ","y","e","s"," ">> }

\* C20: config.nonverifiedServersAllowed is true when the variable is unset or
\* empty, and otherwise true exactly when its value, with the white space
\* around it removed and compared without regard to letter case, is 1, true or
\* yes; every other value (0, false, no, on, y, a blank, true1) yields false.
C20_FlagParse ==
  /\ host.pc # "env" =>
       host.parsed = ( \/ ~FlagVariable.set
                       \/ FlagVariable.v = <<>>
                       \/ FlagVariable.v \in TruthySpellings \cup PaddedTruthySpellings )
  /\ host.pc = "ready" => nonverifiedServersAllowed = host.parsed

\* The value " yes " turned the flag on.
C20_Witness ==
  /\ host.pc = "ready"
  /\ FlagVariable = EnvValue(<<" ","y","e","s"," ">>)
  /\ nonverifiedServersAllowed

\* C20 as stated: true when unset, otherwise true exactly when the value
\* itself is 1, true or yes in some letter case.
C20_AsStated ==
  host.pc = "ready" =>
    nonverifiedServersAllowed =
      (~FlagVariable.set \/ FlagVariable.v \in TruthySpellings)

\* C13: the map and the flag are fixed at startup.  No step of the running
\* process (an interaction or a message that is allowed, denied or failing,
\* or a change of allowed-context.json on disk) changes allowedMap or the
\* flag, and the answer of isGuildAllowed and of isChannelAllowed for every
\* pair of identifiers is the same after the step as before it.
C13_ConfigFrozen ==
  [][ /\ allowedMap' = allowedMap
      /\ nonverifiedServersAllowed' = nonverifiedServersAllowed
      /\ allowedMap' = host'.loaded.map
      /\ nonverifiedServersAllowed' = host'.parsed
      /\ \A g \in GuildIds \cup {Absent}, c \in ChannelIds \cup {Absent} :
           /\ isGuildAllowed(g)' = isGuildAllowed(g)
           /\ isChannelAllowed(g, c)' = isChannelAllowed(g, c) ]_vars

\* The file was deleted while the process ran; an interaction failed, and
\* the loaded map still denies another channel of its guild.
C13_Witness ==
  /\ Done /\ WasCaught(ev)
  /\ host.files[1] = Missing
  /\ allowedMap.present /\ allowedMap = host.loaded.map
  /\ \E c \in ChannelIds : ~isChannelAllowed(ev.guildId, c)

\* The terminal outcome an event shows: the handler it was handed to, or the
\* denial that was logged, or the DM notice, or nothing.
Outcome(i) ==
  IF i.handlers # <<>> THEN i.handlers[1]
  ELSE IF Logged(i, "gate", "deny guild_not_allowed")
          \/ Logged(i, "info", "Upload mention from non-allowed guild")
    THEN "Denied(guild)"
  ELSE IF Logged(i, "gate", "deny channel_not_allowed")
          \/ Logged(i, "info", "Upload mention from non-allowed channel")
    THEN "Denied(channel)"
  ELSE IF DM_BLOCKED \in Contents(i) THEN "Denied(dm)"
  ELSE "ignored"

\* The outcome of the event processed alone, from its own fields and the
\* configuration.
Alone(i) ==
  IF i.type = "message"
    THEN IF i.message.bot \/ ~i.message.mentioned
            \/ pdfAttachments(i.message.attachments) = <<>> \/ i.guildId = Absent
           THEN "ignored"
         ELSE IF ~isGuildAllowed(i.guildId) THEN "Denied(guild)"
         ELSE IF ~isChannelAllowed(i.guildId, i.channelId) THEN "Denied(channel)"
         ELSE "handleMentionUpload"
  ELSE IF ~isRepliable(i) THEN "ignored"
  ELSE IF i.guildId = Absent THEN "Denied(dm)"
  ELSE IF ~isGuildAllowed(i.guildId) THEN "Denied(guild)"
  ELSE IF ~isChannelAllowed(i.guildId, i.channelId) THEN "Denied(channel)"
  ELSE IF i.type = "button" THEN "handleButton"
  ELSE IF i.type = "command" /\ i.commandName = "librarian" /\ i.sub = "chat"
    THEN "handleChat"
  ELSE IF i.type = "command" /\ i.commandName = "librarian" /\ i.sub = "search"
    THEN "handleSearch"
  ELSE IF i.type = "command" /\ i.commandName = "librarian" /\ i.sub = "request"
    THEN "handleRequest"
  ELSE "ignored"

\* C14: with two events in flight and their steps interleaved in every order,
\* each event that has reached its end shows the outcome it has when
\* processed alone (DM, guild or channel denial, ignored, or its one
\* handler), whatever the other event is and wherever the other event stands;
\* an event still on its way has been handed to no handler but its own.
C14_NoInterference ==
  /\ ev.pc = "done" => Outcome(ev) = Alone(ev)
  /\ peer.pc = "done" => Outcome(peer) = Alone(peer)
  /\ \A i \in {ev, peer} :
       /\ Len(i.handlers) <= 1
       /\ i.handlers # <<>> => i.handlers[1] = Alone(i)

\* A search from an allowed channel has deferred and is suspended in its
\* backend call while a button press from a DM has been refused.
C14_Witness ==
  /\ peer.pc = "search.fetch" /\ peer.deferred
  /\ ev.pc = "done" /\ ev.type = "button" /\ Outcome(ev) = "Denied(dm)"
  /\ allowedMap.present

AllowedContext(i) == ~DeniedContext(i)
Routed(i) == i.pc \notin {"idle", "start", "route"}
LibrarianCommand(i) ==
  i.type = "command" /\ i.commandName = "librarian" /\ i.sub # ""

\* C15: an allowed librarian command is handed to exactly one leaf handler by
\* its subcommand (chat: handleChat, search: handleSearch, request:
\* handleRequest); with any other subcommand name no handler is invoked, the
\* first output is the reply "Unknown subcommand.", the warning is logged and
\* nothing is thrown.  (The router logs the warning after the reply, so a
\* reply that fails leaves no warning and throws into the listener.)
C15_DispatchBySubcommand ==
  (Arrived /\ AllowedContext(ev) /\ LibrarianCommand(ev) /\ Routed(ev)) =>
    IF ev.sub \in {"chat", "search", "request"}
      THEN ev.handlers =
             << CASE ev.sub = "chat" -> "handleChat"
                  [] ev.sub = "search" -> "handleSearch"
                  [] ev.sub = "request" -> "handleRequest" >>
      ELSE /\ ev.handlers = <<>>
           /\ ev.http = <<>>
           /\ Len(ev.out) >= 1
           /\ ev.out[1].op = "reply" /\ ev.out[1].content = "Unknown subcommand."
           /\ Logged(ev, "warn", "Unknown subcommand for /librarian")
           /\ ~WasCaught(ev)

\* C16: an allowed command that is not 'librarian' is ignored in silence: no
\* handler is invoked, no backend call is made, nothing is sent, nothing is
\* thrown, and handleInteractionCreate returns.
C16_ForeignCommandIgnored ==
  (Arrived /\ AllowedContext(ev) /\ ev.type = "command"
     /\ ev.commandName # "librarian") =>
    /\ ev.handlers = <<>>
    /\ ev.http = <<>>
    /\ ev.out = <<>>
    /\ ~WasCaught(ev)
    /\ ev.pc \in {"start", "route", "done"}

\* A foreign command passed both gate checks of a listed guild and ended with
\* nothing sent.
C16_Witness ==
  /\ Done /\ ev.type = "command" /\ ev.commandName = "other"
  /\ allowedMap.present /\ ev.guildId \in DOMAIN allowedMap.entries
  /\ ev.gate = GateOrder /\ Logged(ev, "gate", "allow context_allowed")
  /\ ev.out = <<>> /\ ev.handlers = <<>>

OtherKind(i) == i.type \notin {"command", "button", "message"}

\* C17: an interaction that is neither a command nor a button and comes from
\* a guild is never handed to a handler and never throws.  From an allowed
\* guild and channel, and repliable, it is sent nothing and 'Ignoring
\* unsupported interaction type' is logged at debug level.  From a denied
\* guild or channel, and repliable, it is sent the denial notice and the
\* debug entry is not logged.  Not repliable, it is dropped by the context
\* guard: nothing is sent, the gate is not evaluated, nothing is logged.
C17_OtherKindsIgnored ==
  (Arrived /\ inGuild(ev) /\ OtherKind(ev)) =>
    /\ ev.handlers = <<>>
    /\ ev.http = <<>>
    /\ ~WasCaught(ev)
    /\ Done =>
         IF ~isRepliable(ev)
           THEN /\ ev.out = <<>> /\ ev.gate = <<>>
                /\ ~Logged(ev, "debug", "Ignoring unsupported interaction type")
         ELSE IF DeniedContext(ev)
           THEN /\ Len(ev.out) = 1 /\ ev.out[1].content \in DenialNotices
                /\ ~Logged(ev, "debug", "Ignoring unsupported interaction type")
         ELSE /\ ev.out = <<>>
              /\ Logged(ev, "debug", "Ignoring unsupported interaction type")

\* A modal submitted from an allowed channel was ignored with the debug entry.
C17_Witness ==
  /\ Done /\ ev.type = "modal" /\ inGuild(ev) /\ AllowedContext(ev)
  /\ ev.out = <<>> /\ ev.handlers = <<>>
  /\ Logged(ev, "debug", "Ignoring unsupported interaction type")

\* C17 as stated: every interaction from a guild that is neither a command
\* nor a button is sent nothing, reaches no handler, and has the debug entry
\* logged.
C17_AsStated ==
  (Arrived /\ Done /\ inGuild(ev) /\ OtherKind(ev)) =>
    /\ ev.out = <<>>
    /\ ev.handlers = <<>>
    /\ Logged(ev, "debug", "Ignoring unsupported interaction type")

UnparsedButton(i) == i.type = "button" /\ ~parseCustomId(i.customId).ok

\* C18: for an allowed button press whose custom id does not parse, the
\* button handler logs the warning and sends "Unknown action for this
\* button." as its only output (a reply, nothing having acknowledged the
\* interaction before), makes no download request and never defers; the one
\* output that can follow is the listener's own generic notice when that
\* reply failed.
C18_UnknownButton ==
  (Arrived /\ AllowedContext(ev) /\ UnparsedButton(ev) /\ Routed(ev)) =>
    /\ ev.handlers = <<"handleButton">>
    /\ ev.pc # "button" =>
         /\ Logged(ev, "warn", "Unknown or malformed custom_id")
         /\ ev.http = <<>>
         /\ ~ev.deferred
         /\ ev.pc \in {"caught", "done"}
         /\ Len(ev.out) >= 1
         /\ ev.out[1].op = "reply"
         /\ ev.out[1].content = "Unknown action for this button."
         /\ \A k \in 2..Len(ev.out) :
              /\ k = 2 /\ ~ev.out[1].ok /\ WasCaught(ev)
              /\ ev.out[k].content = GenericNotice

\* The button GARBAGE was answered with the notice and nothing else.
C18_Witness ==
  /\ Done /\ ev.type = "button" /\ ev.customId = Garbage
  /\ Len(ev.out) = 1 /\ ev.out[1].ok
  /\ ev.out[1].content = "Unknown action for this button."
  /\ Logged(ev, "warn", "Unknown or malformed custom_id")
  /\ ev.http = <<>>

Called == probe.parsed # <<>>
Delimiters == { ":", ";", "=" }
DelimiterFree(str) == \A k \in 1..Len(str) : str[k] \notin Delimiters
InGrammar(p) ==
  /\ ~p.raw
  /\ p.prefix = <<"L","I","B">>
  /\ p.action \in { <<"U","P","L","O","A","D">>, <<"A","S","K">> }
  /\ p.key \in { <<"f","i","l","e","n","a","m","e">>, <<"b","o","o","k","I","d">> }
  /\ p.value # <<>>
\* What the grammar makes of an id that is in it.
Meaning(p) ==
  [ok |-> TRUE,
   action |-> IF p.action = <<"U","P","L","O","A","D">> THEN "UPLOAD" ELSE "ASK",
   key |-> IF p.key = <<"f","i","l","e","n","a","m","e">> THEN "filename" ELSE "id",
   value |-> p.value]

\* C19: parseCustomId on LIB:<ACTION>:<key>=<value>[;r=<int>;b=<int>].  With
\* ACTION UPLOAD or ASK, key filename or bookId and a non-empty value that
\* holds none of ':', ';', '=', the id parses to that action and to that value
\* (as filename or as id), with the suffix and without it alike.  An id with
\* another prefix, action or key, with an empty value, or that is not of three
\* ':'-separated parts (GARBAGE) parses to nothing.
C19_CustomIdGrammar ==
  Called =>
    /\ (InGrammar(probe) /\ DelimiterFree(probe.value))
         => probe.parsed = <<Meaning(probe)>>
    /\ (~InGrammar(probe) \/ \E k \in 1..Len(probe.value) : probe.value[k] = ":")
         => probe.parsed = <<NoParse>>

\* LIB:UPLOAD:filename=a.pdf;r=2;b=1 parsed to UPLOAD of the file a.pdf.
C19_Witness ==
  /\ probe.customId = <<"L","I","B",":","U","P","L","O","A","D",":","f","i","l","e","n","a","m","e","=","a",".","p","d","f",";","r","=","2",";","b","=","1">>
  /\ probe.parsed = << [ok |-> TRUE, action |-> "UPLOAD", key |-> "filename",
                         value |-> <<"a",".","p","d","f">>] >>

\* C19 as stated: every non-empty value parses to itself.
C19_AsStated ==
  (Called /\ InGrammar(probe)) => probe.parsed = <<Meaning(probe)>>

Credentials == <<host.env.DISCORD_TOKEN, host.env.DISCORD_APP_ID>>
\* The variable is missing or empty.
Lacking(v) == ~v.set \/ v.v = <<>>
Named(path) == \E k \in 1..Len(host.issues) : host.issues[k] = path
NothingStarted ==
  /\ host.loaded = NoResult
  /\ host.console = <<>>
  /\ ~host.client
  /\ host.log = <<>>
  /\ ev = NoInteraction

\* C21: with DISCORD_TOKEN or DISCORD_APP_ID missing or empty, startup is
\* aborted with an error that names the variable, before a candidate path is
\* tested, before the client is created and before an event arrives.  The
\* evaluation of the configuration is aborted exactly when one of these two is
\* lacking, LIBRARIAN_BASE_URL is set to something that is no URL, or LOG_LEVEL
\* is set to something that is no level; no content of the allow-list
\* candidates aborts it.
C21_StartupAborts ==
  /\ host.pc # "aborted"
  /\ host.pc # "env" =>
       /\ Lacking(Credentials[1]) => host.pc = "invalid" /\ Named("DISCORD_TOKEN")
       /\ Lacking(Credentials[2]) => host.pc = "invalid" /\ Named("DISCORD_APP_ID")
       /\ host.pc = "invalid" => NothingStarted /\ host.exitCode = 1
       /\ host.pc = "invalid" <=>
            \/ Lacking(Credentials[1])
            \/ Lacking(Credentials[2])
            \/ host.env.LIBRARIAN_BASE_URL \in { EnvValue(<<>>), EnvValue(<<"x">>) }
            \/ host.env.LOG_LEVEL \in { EnvValue(<<>>), EnvValue(<<"l","o","u","d">>) }

\* An empty DISCORD_TOKEN, everything else in order and an allow-list document
\* that is not JSON: aborted on the token alone, the document never looked at.
C21_Witness ==
  /\ host.pc = "invalid"
  /\ host.env.DISCORD_TOKEN = EnvValue(<<>>)
  /\ host.issues = <<"DISCORD_TOKEN">>
  /\ host.files[1] = InvalidJson
  /\ NothingStarted

\* C21 as stated: a lacking credential is the only thing that aborts the
\* evaluation of the configuration.
C21_AsStated ==
  host.pc = "invalid" => (Lacking(Credentials[1]) \/ Lacking(Credentials[2]))

Exited == script.pc = "exited"
NoGuildListed == ~script.env.set \/ \A k \in 1..Len(script.env.v) : script.env.v[k] \in {",", " "}

GuildsListed == script.pc \in {"guilds", "exited"} /\ script.allowedGuildIds # <<>>
FailureLogged(guildId) ==
  \E k \in 1..Len(script.log) :
    script.log[k] = <<"error", "Failed to register commands for guild", guildId>>

\* C30: with guilds listed, the register-commands script sends one request per
\* guild in the order of the list.  When the request for the first guild
\* fails, the script ends with exit code 1 and no other guild was attempted.
\* When the request for a later guild fails, the failure is logged, every
\* guild after it is still attempted, and the script ends with exit code 0.
C30_FirstGuildFailureAborts ==
  GuildsListed =>
    /\ Len(script.requests) <= Len(script.allowedGuildIds)
    /\ \A k \in 1..Len(script.requests) :
         /\ script.requests[k].route = "applicationGuildCommands"
         /\ script.requests[k].guildId = script.allowedGuildIds[k]
         /\ ~script.requests[k].ok => FailureLogged(script.allowedGuildIds[k])
    /\ (script.requests # <<>> /\ ~script.requests[1].ok) =>
         /\ Exited
         /\ script.exitCode = 1
         /\ Len(script.requests) = 1
    /\ (Exited /\ script.requests[1].ok) =>
         /\ Len(script.requests) = Len(script.allowedGuildIds)
         /\ script.exitCode = 0

\* Three guilds listed, the second failed, the third was still attempted.
C30_Witness ==
  /\ Exited
  /\ Len(script.allowedGuildIds) = 3
  /\ Len(script.requests) = 3
  /\ script.requests[1].ok /\ ~script.requests[2].ok /\ script.requests[3].ok
  /\ FailureLogged(script.allowedGuildIds[2])
  /\ script.exitCode = 0

OnGuildList == probe.cfg.allowedGuildIds = <<>> \/ includes(probe.cfg.allowedGuildIds, probe.guildId)
OnChannelList ==
  probe.cfg.allowedChannelIds = <<>> \/ includes(probe.cfg.allowedChannelIds, probe.channelId)

\* C23: with the flat lists, isAllowedContext allows an event exactly when it
\* is in a guild, the guild list is empty or holds the guild, and the channel
\* list is empty or holds the channel.  A DM is denied with dm_disallowed
\* whatever the lists say; a guild off its list is denied with
\* guild_not_allowed even when the channel is off its list too; only then is a
\* channel off its list denied with channel_not_allowed.
C23_FlatGate ==
  probe.called = "isAllowedContext" =>
    LET r == probe.result[1]
    IN /\ r.allowed <=> (probe.guildId # Absent /\ OnGuildList /\ OnChannelList)
       /\ r.allowed => r.reason = ""
       /\ probe.guildId = Absent => r.reason = "dm_disallowed"
       /\ (probe.guildId # Absent /\ ~OnGuildList) => r.reason = "guild_not_allowed"
       /\ (probe.guildId # Absent /\ OnGuildList /\ ~OnChannelList)
            => r.reason = "channel_not_allowed"

\* Guild and channel both off their lists: the guild reason was given.
C23_Witness ==
  /\ probe.called = "isAllowedContext"
  /\ probe.guildId # Absent
  /\ ~OnGuildList /\ ~OnChannelList
  /\ probe.result[1].reason = "guild_not_allowed"

Sent(i, content) == \E k \in 1..Len(i.out) : i.out[k].content = content

\* C24: an allowed /librarian command with a subcommand of the schema (chat,
\* search, request, upload) is handed to a leaf handler and is never answered
\* with "Unknown subcommand.".  (routeChatInput has no case for upload.)
C24_DeclaredSubcommandsDispatched ==
  (Arrived /\ AllowedContext(ev) /\ LibrarianCommand(ev) /\ Routed(ev)
     /\ ev.sub \in DeclaredSubcommands) =>
    /\ ev.handlers # <<>>
    /\ ~Sent(ev, "Unknown subcommand.")

InitialAck == {"reply", "deferReply"}
\* The interaction was acknowledged before its k-th call: an earlier reply or
\* deferReply went through.
AckedBefore(i, k) ==
  \E j \in 1..(k - 1) : i.out[j].op \in InitialAck /\ i.out[j].ok

\* C25: in every state of an interaction's way through the listener, the gate,
\* the router and the handlers, no reply or deferReply was issued after an
\* earlier reply or deferReply had gone through, and every call issued after
\* the acknowledgement is an editReply or a followUp; this includes the ways
\* on which deferReply, the backend call or an earlier reply failed.
C25_AckProtocol ==
  Arrived =>
    \A k \in 1..Len(ev.out) :
      /\ ev.out[k].op \in InitialAck => ~AckedBefore(ev, k)
      /\ AckedBefore(ev, k) => ev.out[k].op \in {"editReply", "followUp"}

\* deferReply failed, so the handler's answer went out as a reply, the first
\* acknowledgement to go through.
C25_Witness ==
  /\ Arrived
  /\ Len(ev.out) >= 2
  /\ ev.out[1].op = "deferReply" /\ ~ev.out[1].ok
  /\ ev.out[2].op = "reply" /\ ev.out[2].ok

ForeignCommand(i) == i.type = "command" /\ i.commandName # LIBRARIAN_COMMAND_NAME
\* The notice the gate has for the context the interaction came from.
NoticeFor(i) ==
  IF ~inGuild(i) THEN DM_BLOCKED
  ELSE IF ~isGuildAllowed(i.guildId) THEN SERVER_BLOCKED(contactUserMention)
  ELSE CHANNEL_BLOCKED

\* C26: the gate comes before the command name is looked at.  When the
\* listener is done with a command that is not 'librarian': from a DM, a
\* denied guild or a denied channel, the one thing sent is the reply with the
\* denial notice of that context; from an allowed context nothing is sent.  In
\* neither case is a handler invoked.
C26_GateBeforeOwnership ==
  (Arrived /\ Done /\ ForeignCommand(ev)) =>
    /\ ev.handlers = <<>>
    /\ IF DeniedContext(ev)
         THEN /\ Len(ev.out) = 1
              /\ ev.out[1].op = "reply"
              /\ ev.out[1].content = NoticeFor(ev)
         ELSE ev.out = <<>>

\* A command of another bot in a guild that is not allowed: the server notice
\* was delivered.
C26_Witness ==
  /\ Arrived /\ Done /\ ForeignCommand(ev)
  /\ inGuild(ev) /\ ~isGuildAllowed(ev.guildId)
  /\ ev.out = << [op |-> "reply", content |-> SERVER_BLOCKED(contactUserMention), ok |-> TRUE] >>

MessageArrived == ev.pc # "idle" /\ ev.type = "message"
HasPdf(attachments) == \E k \in 1..Len(attachments) : attachments[k] \in {"pdf", "bigpdf"}
\* The message is one the mention upload serves.
Served(i) ==
  /\ ~i.message.bot
  /\ i.message.mentioned
  /\ HasPdf(i.message.attachments)
  /\ i.guildId # Absent /\ i.channelId # Absent
  /\ isGuildAllowed(i.guildId)
  /\ isChannelAllowed(i.guildId, i.channelId)

\* C27: for a message, nothing is fetched from the platform, nothing is
\* uploaded to the backend, no reaction is added and no reply is sent unless
\* its author is no bot, it mentions the bot, it has a .pdf attachment, it has
\* guild and channel ids and isGuildAllowed and isChannelAllowed hold; a
\* message outside that is dropped without anything thrown.
C27_MentionUploadGated ==
  (MessageArrived /\ ~Served(ev)) =>
    /\ ev.http = <<>>
    /\ ev.out = <<>>
    /\ ev.handlers = <<>>
    /\ ~ev.thrown
    /\ ~Logged(ev, "error", "Unhandled error in messageCreate (mention upload)")

\* A mention with a .pdf in a listed guild, from a channel outside its list:
\* the channel gate was asked, the refusal logged, nothing sent or fetched.
C27_Witness ==
  /\ MessageArrived /\ Done
  /\ ~ev.message.bot /\ ev.message.mentioned /\ HasPdf(ev.message.attachments)
  /\ isGuildAllowed(ev.guildId) /\ ~isChannelAllowed(ev.guildId, ev.channelId)
  /\ ev.gate = <<"isGuildAllowed", "isChannelAllowed">>
  /\ Logged(ev, "info", "Upload mention from non-allowed channel")
  /\ ev.out = <<>> /\ ev.http = <<>>

Rows == 1..Len(probe.components)
Buttons == {1, 2}

\* C28: the custom ids of the buttons under one search answer (one row of two
\* buttons for each of the first five matches) are pairwise different, also
\* when a book occurs in several rows, and each parses with parseCustomId to
\* its button's action (UPLOAD for the first, ASK for the second) and to the
\* id of the book of its row.
C28_ButtonIdsDistinct ==
  probe.built =>
    /\ Len(probe.components) = (IF Len(probe.matches) > 5 THEN 5 ELSE Len(probe.matches))
    /\ \A r1 \in Rows, r2 \in Rows, b1 \in Buttons, b2 \in Buttons :
         probe.components[r1][b1] = probe.components[r2][b2] => (r1 = r2 /\ b1 = b2)
    /\ \A r \in Rows, b \in Buttons :
         parseCustomId(probe.components[r][b]) =
           [ok |-> TRUE, action |-> (IF b = 1 THEN "UPLOAD" ELSE "ASK"),
            key |-> "id", value |-> probe.matches[r].id]

\* Five rows for the same book five times: ten ids, all different.
C28_Witness ==
  /\ probe.built
  /\ Len(probe.matches) = 5
  /\ \A r \in 1..5 : probe.matches[r].id = <<"4","2">>
  /\ Cardinality({ probe.components[r][b] : r \in Rows, b \in Buttons }) = 10

RequestHandled == Arrived /\ ev.handlers = <<"handleRequest">>
ByFilename == "GET /books/by-filename/:filename/download"
ListBooks == "GET /books"
ById == "GET /books/:id/download"
BookNotFound404(res) == res.status = 404 /\ res.body = "book_not_found"
\* The names of the model without regard to letter case.
Folded(name) ==
  CASE name \in { <<"a",".","P","D","F">>, <<"A",".","p","d","f">> } -> "a.pdf"
    [] name = <<"b",".","p","d","f">> -> "b.pdf"
    [] name = <<"c",".","p","d","f">> -> "c.pdf"
Listed(res, filename) ==
  /\ res.isArray
  /\ \E k \in 1..Len(res.items) : Folded(res.items[k].filename) = Folded(filename)

====
